---- MODULE Spec2Model ----
(***************************************************************************)
(* The human-gated, file-backed workflow of the AI-employee vault.         *)
(*                                                                         *)
(* Spec          the approval gateway of scripts/request_approval.py:      *)
(*               create_request, check_status and finalize_request called  *)
(*               on the vault directories, with a human reviewer who       *)
(*               edits decision documents.                                 *)
(* SpecSkill     HumanApprovalSkill.request_approval(wait=True) next to    *)
(*               other callers of the gateway.                             *)
(* SpecWait      request_approval(wait=True) alone with the reviewer.      *)
(* SpecParse     the status queries of request_approval.py and of          *)
(*               mcp_executor.py on every document of the vocabulary.      *)
(* SpecFinalize  one request id created and finalized repeatedly.          *)
(* SpecExecutor  MCPExecutor.execute_action of scripts/mcp_executor.py.    *)
(* SpecRalph     RalphWiggumLoop.run_loop of scripts/ralph_wiggum.py.      *)
(* SpecRetry     RetryHandler.execute_with_retry on every performer.       *)
(* SpecPlanner   task_planner_skill of scripts/task_planner.py, started    *)
(*               again and again on an inbox that files are put into.      *)
(* SpecPlannerCrash   the planner killed at any point and started again.   *)
(* SpecPlannerFaults  the planner and the orchestrator with failing file   *)
(*               operations and a damaged tracking file.                   *)
(* SpecRalphLive SpecRalph with a run_loop that goes on until it returns. *)
(* SpecClassify  the two classifiers on every text over a vocabulary.      *)
(* SpecLock      the schedulers of scripts/run_ai_employee.py and their    *)
(*               lock file, every step of acquire and release on its own.  *)
(* SpecRecovery  ErrorRecoverySystem.handle_error of error_recovery.py.    *)
(* SpecAudit     the writers of Logs/actions.log along one task.  The      *)
(*               other specifications leave the log's lines out.           *)
(* SpecPoll      request_approval(wait=True) with poll intervals below the *)
(*               five seconds of the documentation.                        *)
(* SpecRalphRuns run_loop started again and again on one task document,    *)
(*               with dry runs and failing moves to Done.                  *)
(* SpecQuarantine     handle_error on files of the vault: the Errors       *)
(*               directory and the names _move_to_errors gives.            *)
(* SpecLogRace   processes inside a write of Logs/actions.log at the same  *)
(*               time, the read and the rewrite of _write_log apart.       *)
(*                                                                         *)
(* Time is the wall clock in whole seconds.  time.sleep(p) advances it by  *)
(* p; every other statement takes no time.                                 *)
(***************************************************************************)
EXTENDS Integers, Sequences, FiniteSets, TLC

VARIABLES
    needs_approval_exists, \* os.path.exists(Needs_Approval)
    needs_approval,   \* directory Needs_Approval: file name -> document
    listing,          \* os.listdir(Needs_Approval): its file names in order
    approved,         \* directory Approved
    rejected,         \* directory Rejected
    needs_action,     \* directory Needs_Action (intake)
    now,              \* time.time() / datetime.now(), in seconds
    skill,            \* HumanApprovalSkill.request_approval: the running call
    fin,              \* ApprovalRequestManager.finalize_request: the running call
    ret,              \* the last return value of a status query
    nCreates,         \* number of create_request calls so far
    nStops,           \* number of finalize_request calls that stopped midway
    exec,             \* MCPExecutor.execute_action: the running call
    ralph,            \* RalphWiggumLoop: the running run_loop
    inbox,            \* directory Inbox: file name -> file
    plan_files,       \* the plans in Needs_Action: plan file name -> text
    done,             \* directory Done: file name -> file
    dashboard,        \* the Recent Activity entries of Dashboard.md, newest first
    tracking_file,    \* Logs/task_planner_tracking.json
    actions_log,      \* the errors the planner wrote to Logs/actions.log, as a set
    tracker,          \* task_planner_skill: the running process and its TaskTracker
    nDrops,           \* number of files put into the inbox so far
    orch,             \* orchestrator.process_needs_action_files: the running pass
    analysis,         \* the text given to the classifiers and what they returned
    lockfs,           \* the file system around ai_employee.lock: path and inodes
    sched,            \* the scheduler processes and their LockFileManager
    last_status,      \* what the last status query of the scheduler reported
    audit,            \* the lines of Logs/actions.log, oldest first
    watch_tracking,   \* the hashes in Logs/vault_watcher_tracking.json
    recovery,         \* ErrorRecoverySystem.handle_error: the running call
    quarantine,       \* the failed files of the vault and the Errors directory
    writers           \* the processes inside a write to Logs/actions.log

vars == <<needs_approval_exists, needs_approval, listing, approved, rejected, needs_action,
          now, skill, fin, ret, nCreates, nStops, exec, ralph,
          inbox, plan_files, done, dashboard, tracking_file, actions_log, tracker,
          nDrops, orch, analysis, lockfs, sched, last_status, audit, watch_tracking,
          recovery, quarantine, writers>>

plannerVars == <<inbox, plan_files, done, dashboard, tracking_file, actions_log, tracker,
                 nDrops>>

\* what the approval gateway, the executor and the autonomous loop leave alone
otherVars == <<plannerVars, orch, analysis, lockfs, sched, last_status, audit,
               watch_tracking, recovery, quarantine, writers>>

\* the scheduler's lock, the audit log and the error recovery
laterVars == <<lockfs, sched, last_status, audit, watch_tracking, recovery, quarantine, writers>>

gatewayVars == <<needs_approval_exists, needs_approval, listing, approved, rejected,
                 needs_action, now, skill, fin, ret, nCreates, nStops>>

-----------------------------------------------------------------------------
(* Bounds of the model *)

\* create_request calls in one behaviour
MaxCreates == 2
\* create_request calls in one behaviour of the skill specification
MaxSkillCreates == 2
\* seconds that pass apart from the sleeps, in the finalization specification
MaxClock == 1
\* finalize_request calls that stop midway in one behaviour
MaxStops == 1
\* create_request calls in one behaviour of the finalization specification
MaxRecreates == 3
\* request_approval(wait=True) calls in one behaviour of the wait specification
MaxWaits == 2
\* create_request calls in one behaviour of the executor specification
MaxExecutorCreates == 1
MaxDrops == 2
MaxPlannerRuns == 2
MaxPasses == 2
MaxCrashRuns == 2
MaxFaultDrops == 2
MaxFaultRuns == 1
MaxFaultPasses == 1
MaxOrchFiles == 2
\* execute_action calls in one behaviour
MaxExecutions == 1
\* run_loop calls in one behaviour
MaxRuns == 1
\* a max_iterations above the default, enough for the longest plan
LargeMaxIterations == 7
\* scheduler processes started side by side
NumInstances == 2
\* run_iteration calls of one scheduler run
MaxIterationsOfRun == 1
\* handle_error calls in one behaviour
MaxErrors == 2
\* run_loop calls on task documents that may stay in Needs_Action
MaxRalphRuns == 2
\* a poll_interval of a second, and the waits started with it
PollTiny == 1
MaxPollWaits == 1
\* files put into the inbox, planner runs, approval requests and executor
\* calls where the audit log is followed
MaxAuditDrops == 1
MaxAuditRuns == 1
MaxAuditRequests == 1
MaxAuditExecutions == 1
\* Config.DEFAULT_RETRY_DELAY of error_recovery.py, in seconds
Config_DEFAULT_RETRY_DELAY == 300
\* largest timeout_minutes given to HumanApprovalSkill
MaxTimeoutMinutes == 1
\* the two poll_interval values given to HumanApprovalSkill, in seconds:
\* one that does not divide a minute and one that does
PollShort == 25
PollLong == 60

SecondsPerMinute == 60

-----------------------------------------------------------------------------
(* Request ids and file names.  A name is a sequence of tokens; the tokens *)
(* of a request id are digits, so that one id can be a substring of        *)
(* another ("1" in "12"), and no other token holds a digit.                *)

RequestIds == { <<"1">>, <<"1", "2">> }

\* Python's (s in t) on strings
IsSubstring(s, t) ==
    \E i \in 0..(Len(t) - Len(s)) : SubSeq(t, i + 1, i + Len(s)) = s

\* str.endswith('.md')
EndsWithMd(name) == Len(name) > 0 /\ name[Len(name)] = ".md"

\* a file name that is new when the request already has a file
RequestFileName_fresh(request_id) ==
    IF request_id \o <<".md">> \in DOMAIN needs_approval
    THEN request_id \o <<"_", ToString(nCreates), ".md">>
    ELSE request_id \o <<".md">>

\* f"{request_id}.md"
RequestFileName(request_id) == request_id \o <<".md">>

\* f"{prefix}_{filename}"
PrefixedName(prefix, filename) == <<prefix, "_">> \o filename

\* base, ext = os.path.splitext(new_filename); f"{base}_{timestamp}{ext}"
StampedName(new_filename, timestamp) ==
    SubSeq(new_filename, 1, Len(new_filename) - 1)
        \o <<"_", ToString(timestamp)>>
        \o <<new_filename[Len(new_filename)]>>

-----------------------------------------------------------------------------
(* Decision documents.  A document is the request details create_request   *)
(* wrote into it (action type, action data, priority and creation time,    *)
(* modelled by the number of the call), the set of text lines of its       *)
(* status area, whether its bytes decode as UTF-8, and the finalization    *)
(* notes appended to it.  The other lines of the template never change.    *)

\* the status line create_request writes
PendingLine == "status: PENDING"
\* the instruction lines of the template that mention the status (the
\* template's backquotes are written as quotes)
TemplateLines == { "To **APPROVE**: Change the status below to 'APPROVED'",
                   "To **REJECT**: Change the status below to 'REJECTED'" }

\* the status line RalphWiggumLoop._request_approval writes
RalphPendingLine == "**Status:** [pending/approved/rejected]"

\* what a reviewer may leave in the status area
HumanAreas ==
    { {"status: APPROVED"},
      {"status: REJECTED"},
      {"**Status:** Approved"},
      {"**Status:** Rejected"},
      {"status:APPROVED"},                          \* malformed: no blank
      {"status: APPROVED", "status: REJECTED"},     \* conflicting
      {"status: APPROVED / REJECTED"} }             \* malformed and conflicting

Lines == {PendingLine, RalphPendingLine} \cup TemplateLines \cup UNION HumanAreas

\* str.lower()
Lower(line) ==
    CASE line = "status: PENDING" -> "status: pending"
      [] line = "**Status:** [pending/approved/rejected]"
            -> "**status:** [pending/approved/rejected]"
      [] line = "status: APPROVED" -> "status: approved"
      [] line = "status: REJECTED" -> "status: rejected"
      [] line = "**Status:** Approved" -> "**status:** approved"
      [] line = "**Status:** Rejected" -> "**status:** rejected"
      [] line = "status:APPROVED" -> "status:approved"
      [] line = "status: APPROVED / REJECTED" -> "status: approved / rejected"
      [] line = "To **APPROVE**: Change the status below to 'APPROVED'"
            -> "to **approve**: change the status below to 'approved'"
      [] line = "To **REJECT**: Change the status below to 'REJECTED'"
            -> "to **reject**: change the status below to 'rejected'"

\* (marker in text) for the four markers the parsers look for, on the
\* lower-cased lines of the vocabulary
Contains(text, marker) ==
    CASE marker = "status: approved" ->
            text \in {"status: approved", "status: approved / rejected"}
      [] marker = "**status:** approved" ->
            text \in {"**status:** approved"}
      [] marker = "status: rejected" ->
            text \in {"status: rejected"}
      [] marker = "**status:** rejected" ->
            text \in {"**status:** rejected"}

\* the text of a document: template lines and status area
ContentLines(doc) == TemplateLines \cup doc.area

\* (marker in content.lower())
ContentHas(doc, marker) ==
    \E line \in ContentLines(doc) : Contains(Lower(line), marker)

\* the content create_request writes
NewDocument(details) ==
    [details |-> details, area |-> {PendingLine}, readable |-> TRUE, notes |-> <<>>]

-----------------------------------------------------------------------------
(* The status parsers *)

\* ApprovalRequestManager._parse_status
_parse_status(doc) ==
    IF ContentHas(doc, "status: approved") \/ ContentHas(doc, "**status:** approved")
    THEN "APPROVED"
    ELSE IF ContentHas(doc, "status: rejected") \/ ContentHas(doc, "**status:** rejected")
    THEN "REJECTED"
    ELSE "PENDING"

\* ApprovalChecker._parse_status_from_file: open() or read() raising is
\* answered with PENDING
_parse_status_from_file(doc) ==
    IF ~doc.readable THEN "PENDING"
    ELSE IF ContentHas(doc, "**status:** approved") \/ ContentHas(doc, "status: approved")
    THEN "APPROVED"
    ELSE IF ContentHas(doc, "**status:** rejected") \/ ContentHas(doc, "status: rejected")
    THEN "REJECTED"
    ELSE "PENDING"

-----------------------------------------------------------------------------
(* Directories *)

EmptyDir == [n \in {} |-> NewDocument(0)]

WriteFile(dir, name, doc) ==
    [n \in DOMAIN dir \cup {name} |-> IF n = name THEN doc ELSE dir[n]]

RemoveFile(dir, name) == [n \in DOMAIN dir \ {name} |-> dir[n]]

\* a directory listing with a new name in it at place k + 1
InsertAt(names, k, name) ==
    SubSeq(names, 1, k) \o <<name>> \o SubSeq(names, k + 1, Len(names))

\* a directory listing without a name
Without(names, name) ==
    LET F[i \in 0..Len(names)] ==
            IF i = 0 THEN <<>>
            ELSE IF names[i] = name THEN F[i - 1] ELSE Append(F[i - 1], names[i])
    IN F[Len(names)]

\* no file found
None == <<>>

\* _find_request_file: the first file name of os.listdir that holds the
\* request id and ends with .md
_find_request_file(request_id) ==
    IF ~needs_approval_exists THEN None
    ELSE LET matches == { i \in 1..Len(listing) :
                            IsSubstring(request_id, listing[i]) /\ EndsWithMd(listing[i]) }
         IN IF matches = {} THEN None
            ELSE listing[CHOOSE i \in matches : \A j \in matches : i <= j]

Terminal == {"APPROVED", "REJECTED"}

\* what a status query read: the file found and its document
NoDocument == [details |-> 0, area |-> {}, readable |-> TRUE, notes |-> <<>>]
Reading(status, path) ==
    [status |-> status, path |-> path,
     doc |-> IF path = None THEN NoDocument ELSE needs_approval[path]]

\* ApprovalRequestManager.check_status.  No file found, or open() or read()
\* raising, is answered with PENDING.
check_status(request_id) ==
    LET filepath == _find_request_file(request_id)
    IN  IF filepath = None THEN Reading("PENDING", None)
        ELSE IF ~needs_approval[filepath].readable THEN Reading("PENDING", filepath)
        ELSE Reading(_parse_status(needs_approval[filepath]), filepath)

\* ApprovalChecker.check_approval_status; the status "None" is Python's None
check_approval_status(request_id) ==
    LET request_file == _find_request_file(request_id)
    IN  IF request_file = None THEN Reading("None", None)
        ELSE Reading(_parse_status_from_file(needs_approval[request_file]), request_file)

-----------------------------------------------------------------------------
(* The approval gateway: scripts/request_approval.py *)

ApprovalResults == {"APPROVED", "REJECTED", "TIMEOUT"}

NoReturn ==
    [op |-> "none", request_id |-> <<>>, status |-> "", path |-> None, doc |-> NoDocument]
Return(op, request_id, reading) ==
    [op |-> op, request_id |-> request_id, status |-> reading.status,
     path |-> reading.path, doc |-> reading.doc]

SkillIdle ==
    [pc |-> "idle", request_id |-> <<>>, timeout_seconds |-> 0, poll_interval |-> 0,
     start_time |-> 0, elapsed |-> 0, last_poll |-> -1, approval_result |-> "NONE",
     final_path |-> None]

FinIdle ==
    [pc |-> "idle", caller |-> "", request_id |-> <<>>, result |-> "",
     source_path |-> None, dest_path |-> None]

\* finalize_request: destination folder and file-name prefix of a result
DestFolder(result) ==
    CASE result = "APPROVED" -> "approved"
      [] result = "REJECTED" -> "rejected"
      [] OTHER -> "needs_action"

Prefix(result) ==
    CASE result = "APPROVED" -> "approved"
      [] result = "REJECTED" -> "rejected"
      [] OTHER -> "timeout"

Folder(name) ==
    CASE name = "approved" -> approved
      [] name = "rejected" -> rejected
      [] name = "needs_action" -> needs_action

\* finalize_request: the destination path for a source file; an existing
\* destination gets the time stamp added
DestName(result, source) ==
    LET new_filename == PrefixedName(Prefix(result), source)
    IN  IF new_filename \in DOMAIN Folder(DestFolder(result))
        THEN StampedName(new_filename, now)
        ELSE new_filename

\* finalize_request: the document written to the destination
Finalized(doc, result) ==
    [doc EXCEPT !.notes = Append(@, [status |-> result, at |-> now])]

\* ApprovalRequestManager.create_request: open(filepath, 'w') and write.  A
\* new file appears at some place of the directory listing.
create_request(request_id) ==
    LET filename == RequestFileName(request_id)
    IN  /\ needs_approval' = WriteFile(needs_approval, filename, NewDocument(nCreates + 1))
        /\ IF filename \in DOMAIN needs_approval
           THEN listing' = listing
           ELSE \E k \in 0..Len(listing) : listing' = InsertAt(listing, k, filename)
        /\ nCreates' = nCreates + 1

\* ApprovalRequestManager() followed by create_request, or
\* HumanApprovalSkill.request_approval(wait=False)
CreateRequestCall(request_id) ==
    /\ needs_approval_exists' = TRUE
    /\ create_request(request_id)
    /\ UNCHANGED <<approved, rejected, needs_action, now, skill, fin, ret, nStops>>

\* ApprovalRequestManager() followed by check_status
CheckStatusCall(request_id) ==
    /\ needs_approval_exists' = TRUE
    /\ ret' = Return("check_status", request_id, check_status(request_id))
    /\ UNCHANGED <<needs_approval, listing, approved, rejected, needs_action, now,
                   skill, fin, nCreates, nStops>>

\* ApprovalChecker().check_approval_status
CheckApprovalStatusCall(request_id) ==
    /\ ret' = Return("check_approval_status", request_id, check_approval_status(request_id))
    /\ UNCHANGED <<needs_approval_exists, needs_approval, listing, approved, rejected,
                   needs_action, now, skill, fin, nCreates, nStops>>

\* a loop that goes on at the deadline
StillWaiting_at_deadline(elapsed, timeout_seconds) == elapsed <= timeout_seconds

\* wait_for_decision: the loop condition, while elapsed < timeout_seconds
StillWaiting(elapsed, timeout_seconds) == elapsed < timeout_seconds

\* HumanApprovalSkill.request_approval(wait=True), up to the first test of
\* the loop condition of wait_for_decision
RequestApproval(request_id, timeout_minutes, poll_interval) ==
    /\ skill.pc \in {"idle", "done", "crashed"}
    /\ needs_approval_exists' = TRUE
    /\ create_request(request_id)
    /\ LET timeout_seconds == timeout_minutes * SecondsPerMinute
       IN skill' = [SkillIdle EXCEPT
                      !.pc = IF StillWaiting(0, timeout_seconds)
                             THEN "waiting" ELSE "finalize",
                      !.request_id = request_id,
                      !.timeout_seconds = timeout_seconds,
                      !.poll_interval = poll_interval,
                      !.start_time = now,
                      !.approval_result = IF StillWaiting(0, timeout_seconds)
                                          THEN "NONE" ELSE "TIMEOUT"]
    /\ UNCHANGED <<approved, rejected, needs_action, now, fin, ret, nStops>>

\* wait_for_decision: the poll of one iteration of the loop: check_status,
\* then either return the decision or go to sleep
WaitIteration ==
    /\ skill.pc = "waiting"
    /\ LET reading == check_status(skill.request_id)
       IN /\ ret' = Return("check_status", skill.request_id, reading)
          /\ skill' = IF reading.status \in Terminal
                      THEN [skill EXCEPT !.pc = "finalize",
                                         !.last_poll = skill.elapsed,
                                         !.approval_result = reading.status]
                      ELSE [skill EXCEPT !.pc = "sleeping",
                                         !.last_poll = skill.elapsed]
    /\ UNCHANGED <<needs_approval_exists, needs_approval, listing, approved, rejected,
                   needs_action, now, fin, nCreates, nStops>>

\* wait_for_decision: time.sleep(poll_interval) ends, elapsed is computed
\* anew and the loop condition is tested; TIMEOUT is returned when it fails
WaitSleep ==
    /\ skill.pc = "sleeping"
    /\ now' = now + skill.poll_interval
    /\ LET elapsed == now' - skill.start_time
       IN skill' = [skill EXCEPT
                      !.elapsed = elapsed,
                      !.pc = IF StillWaiting(elapsed, skill.timeout_seconds)
                             THEN "waiting" ELSE "finalize",
                      !.approval_result =
                          IF StillWaiting(elapsed, skill.timeout_seconds)
                          THEN "NONE" ELSE "TIMEOUT"]
    /\ UNCHANGED <<needs_approval_exists, needs_approval, listing, approved, rejected,
                   needs_action, fin, ret, nCreates, nStops>>

\* finalize_request, first part: find the source, choose the destination,
\* read the source and write the destination.  Reading a file whose bytes do
\* not decode raises, and the exception leaves the caller.
finalize_begin(caller, request_id, result) ==
    LET source_path == _find_request_file(request_id)
    IN  IF source_path = None
        THEN \* "Warning: Request file not found", return None
             /\ skill' = IF caller = "skill" THEN [skill EXCEPT !.pc = "done"] ELSE skill
             /\ UNCHANGED <<approved, rejected, needs_action, fin>>
        ELSE IF ~needs_approval[source_path].readable
        THEN /\ skill' = IF caller = "skill" THEN [skill EXCEPT !.pc = "crashed"] ELSE skill
             /\ UNCHANGED <<approved, rejected, needs_action, fin>>
        ELSE LET dest_path == DestName(result, source_path)
                 content == Finalized(needs_approval[source_path], result)
             IN /\ approved' = IF DestFolder(result) = "approved"
                               THEN WriteFile(approved, dest_path, content) ELSE approved
                /\ rejected' = IF DestFolder(result) = "rejected"
                               THEN WriteFile(rejected, dest_path, content) ELSE rejected
                /\ needs_action' = IF DestFolder(result) = "needs_action"
                                   THEN WriteFile(needs_action, dest_path, content)
                                   ELSE needs_action
                /\ fin' = [pc |-> "written", caller |-> caller, request_id |-> request_id,
                           result |-> result, source_path |-> source_path,
                           dest_path |-> dest_path]
                /\ skill' = skill

\* request_approval(wait=True) reaches finalize_request
SkillFinalizeBegin ==
    /\ skill.pc = "finalize"
    /\ fin.pc = "idle"
    /\ finalize_begin("skill", skill.request_id, skill.approval_result)
    /\ UNCHANGED <<needs_approval_exists, needs_approval, listing, now, ret, nCreates,
                   nStops>>

\* ApprovalRequestManager() followed by finalize_request
FinalizeRequestCall(request_id, result) ==
    /\ fin.pc = "idle"
    /\ skill.pc # "finalize"
    /\ needs_approval_exists' = TRUE
    /\ finalize_begin("api", request_id, result)
    /\ UNCHANGED <<needs_approval, listing, now, ret, nCreates, nStops>>

\* finalize_request, second part: remove the original file if it still
\* exists, log the move and return the destination path
FinalizeEnd ==
    /\ fin.pc = "written"
    /\ IF fin.source_path \in DOMAIN needs_approval
       THEN /\ needs_approval' = RemoveFile(needs_approval, fin.source_path)
            /\ listing' = Without(listing, fin.source_path)
       ELSE UNCHANGED <<needs_approval, listing>>
    /\ skill' = IF fin.caller = "skill"
                THEN [SkillIdle EXCEPT !.pc = "done",
                                       !.request_id = skill.request_id,
                                       !.approval_result = skill.approval_result,
                                       !.final_path = fin.dest_path]
                ELSE skill
    /\ fin' = FinIdle
    /\ UNCHANGED <<needs_approval_exists, approved, rejected, needs_action, now, ret,
                   nCreates, nStops>>

\* the process running finalize_request stops between writing the
\* destination and removing the original
StopMidway ==
    /\ fin.pc = "written"
    /\ nStops < MaxStops
    /\ nStops' = nStops + 1
    /\ fin' = FinIdle
    /\ skill' = IF fin.caller = "skill" THEN [skill EXCEPT !.pc = "crashed"] ELSE skill
    /\ UNCHANGED <<needs_approval_exists, needs_approval, listing, approved, rejected,
                   needs_action, now, ret, nCreates>>

-----------------------------------------------------------------------------
(* The reviewer and the clock *)

\* the reviewer rewrites the status area of a decision document
HumanEdit(name, area) ==
    /\ name \in DOMAIN needs_approval
    /\ needs_approval[name].area # area \/ ~needs_approval[name].readable
    /\ needs_approval' = [needs_approval EXCEPT
                            ![name] = [@ EXCEPT !.area = area, !.readable = TRUE]]
    /\ UNCHANGED <<needs_approval_exists, listing, approved, rejected, needs_action,
                   now, skill, fin, ret, nCreates, nStops>>

\* the reviewer records a decision in a document that has none
HumanDecide(name, area) ==
    /\ name \in DOMAIN needs_approval
    /\ needs_approval[name].area = {PendingLine}
    /\ HumanEdit(name, area)

\* the reviewer's editor saves the document in an encoding that is not UTF-8
HumanSaveUndecodable(name) ==
    /\ name \in DOMAIN needs_approval
    /\ needs_approval[name].readable
    /\ needs_approval' = [needs_approval EXCEPT ![name] = [@ EXCEPT !.readable = FALSE]]
    /\ UNCHANGED <<needs_approval_exists, listing, approved, rejected, needs_action,
                   now, skill, fin, ret, nCreates, nStops>>

\* a second of wall-clock time passes
Tick ==
    /\ now < MaxClock
    /\ now' = now + 1
    /\ UNCHANGED <<needs_approval_exists, needs_approval, listing, approved, rejected,
                   needs_action, skill, fin, ret, nCreates, nStops>>

-----------------------------------------------------------------------------
(* The executor: scripts/mcp_executor.py *)

DEFAULT_MAX_RETRIES == 3
DEFAULT_RETRY_DELAY == 5
APPROVAL_CHECK_INTERVAL == 10
APPROVAL_TIMEOUT == 600

\* class ActionType
ActionType == {"email", "linkedin"}
\* the action types a caller passes: the two of ActionType and another one
ActionTypeInputs == ActionType \cup {"sms"}

\* request_id None or ""
NoRequest == <<>>

ExecIdle ==
    [pc |-> "idle", action_type |-> "", fields |-> FALSE, request_id |-> NoRequest,
     start_time |-> 0, approval_status |-> "NONE", observed |-> "NONE",
     attempt |-> 0, performer_calls |-> 0, status |-> "", executions |-> 0,
     max_retries |-> 0, outcomes |-> <<>>, attempts |-> 0, error |-> "None"]

\* an execute_action that stops for a rejection only
AfterApproval_timeout_approves(approval_status) ==
    CASE approval_status = "REJECTED" -> "rejected"
      [] OTHER -> "execute"

\* execute_action: what follows the status wait_for_approval returned
AfterApproval(approval_status) ==
    CASE approval_status = "REJECTED" -> "rejected"
      [] approval_status = "PENDING" -> "timeout"
      [] OTHER -> "execute"

\* wait_for_approval: the loop condition
WithinTimeout(start_time) == now - start_time < APPROVAL_TIMEOUT

\* what the performer (send_email, post_linkedin) does in one call: it
\* returns a result with success true, returns a result with success false
\* and an error of some kind, or raises an exception
Failures == {"transient", "permission", "validation", "authentication", "exception"}
PerformerOutcomes == {"success"} \cup Failures

\* a range that lets one more attempt in
AttemptInRange_one_more(attempt, max_retries) == attempt <= max_retries + 1

\* execute_with_retry: attempt in range(1, self.max_retries + 1)
AttemptInRange(attempt, max_retries) == attempt <= max_retries

\* MCPExecutor.execute_action up to the first test of the loop condition of
\* wait_for_approval, or up to the dispatch when no request id is given
execute_action(action_type, fields, request_id, max_retries) ==
    /\ exec.pc \in {"idle", "returned"}
    /\ exec' = [ExecIdle EXCEPT
                  !.executions = exec.executions + 1,
                  !.max_retries = max_retries,
                  !.action_type = action_type,
                  !.fields = fields,
                  !.request_id = request_id,
                  !.start_time = now,
                  !.pc = IF action_type \notin ActionType THEN "returned"
                         ELSE IF request_id = NoRequest THEN "execute"
                         ELSE IF WithinTimeout(now) THEN "waiting"
                         ELSE AfterApproval("PENDING"),
                  !.status = IF action_type \notin ActionType THEN "error" ELSE ""]
    /\ UNCHANGED gatewayVars

\* wait_for_approval: one iteration of the loop, and what execute_action
\* does with the status when the loop ends
wait_for_approval ==
    /\ exec.pc = "waiting"
    /\ LET status == check_approval_status(exec.request_id).status
       IN IF status \in Terminal
          THEN /\ now' = now
               /\ exec' = [exec EXCEPT
                             !.observed = status,
                             !.approval_status = status,
                             !.pc = IF AfterApproval(status) = "execute"
                                    THEN "execute" ELSE "returned",
                             !.status = IF AfterApproval(status) = "execute"
                                        THEN "" ELSE AfterApproval(status)]
          ELSE /\ now' = now + APPROVAL_CHECK_INTERVAL
               /\ IF now' - exec.start_time < APPROVAL_TIMEOUT
                  THEN exec' = [exec EXCEPT !.observed = status]
                  ELSE exec' = [exec EXCEPT
                                  !.observed = status,
                                  !.approval_status = "PENDING",
                                  !.pc = IF AfterApproval("PENDING") = "execute"
                                         THEN "execute" ELSE "returned",
                                  !.status = IF AfterApproval("PENDING") = "execute"
                                             THEN "" ELSE AfterApproval("PENDING")]
    /\ UNCHANGED <<needs_approval_exists, needs_approval, listing, approved, rejected,
                   needs_action, skill, fin, ret, nCreates, nStops>>

\* _execute_email, _execute_linkedin: the required fields are looked up
\* and execute_with_retry is entered; with no attempt in range it returns
\* at once, with no error
_execute ==
    /\ exec.pc = "execute"
    /\ exec' = IF ~exec.fields
               THEN [exec EXCEPT !.pc = "returned", !.status = "error"]
               ELSE IF AttemptInRange(1, exec.max_retries)
               THEN [exec EXCEPT !.pc = "retrying", !.attempt = 1]
               ELSE [exec EXCEPT !.pc = "returned", !.status = "failed",
                                 !.attempts = exec.max_retries]
    /\ UNCHANGED gatewayVars

\* RetryHandler.execute_with_retry: one attempt.  A result with success
\* false and a raised exception are both a failed attempt: the error is
\* kept, the handler sleeps if the attempt was not the last one and goes on
\* to the next attempt of the range.
execute_with_retry(outcome) ==
    /\ exec.pc = "retrying"
    /\ LET called == [exec EXCEPT !.performer_calls = @ + 1,
                                  !.outcomes = Append(@, outcome)]
       IN IF outcome = "success"
          THEN /\ exec' = [called EXCEPT !.pc = "returned", !.status = "success",
                                         !.attempts = exec.attempt]
               /\ now' = now
          ELSE /\ now' = IF exec.attempt < exec.max_retries
                         THEN now + DEFAULT_RETRY_DELAY ELSE now
               /\ exec' = IF AttemptInRange(exec.attempt + 1, exec.max_retries)
                          THEN [called EXCEPT !.attempt = @ + 1, !.error = outcome]
                          ELSE [called EXCEPT !.pc = "returned", !.status = "failed",
                                              !.attempts = exec.max_retries,
                                              !.error = outcome]
    /\ UNCHANGED <<needs_approval_exists, needs_approval, listing, approved, rejected,
                   needs_action, skill, fin, ret, nCreates, nStops>>

-----------------------------------------------------------------------------
(* The autonomous loop: scripts/ralph_wiggum.py *)

DEFAULT_MAX_ITERATIONS == 5

\* the keyword groups _analyze_task looks for in a task's text
Keywords == {"email", "social", "destructive", "financial"}

\* _analyze_task: the task type; each later test overrides the earlier
\* ones, and a task that cannot be read stays general
_analyze_task(content, readable) ==
    IF ~readable THEN "general"
    ELSE IF "financial" \in content THEN "financial"
    ELSE IF "destructive" \in content THEN "destructive"
    ELSE IF "social" \in content THEN "social_media"
    ELSE IF "email" \in content THEN "email"
    ELSE "general"

Step(description, risky) == [description |-> description, risky |-> risky]

\* a plan whose main action is risky whatever the task type
_generate_steps_all_risky(task_type) ==
    << Step("Analyze task requirements", FALSE),
       Step("Identify required resources", FALSE),
       Step("Execute main action", TRUE),
       Step("Verify completion", FALSE),
       Step("Log activity", FALSE) >>

\* _generate_steps
_generate_steps(task_type) ==
    CASE task_type = "email" ->
            << Step("Analyze email content and recipient", FALSE),
               Step("Validate email format and attachments", FALSE),
               Step("Prepare email draft", FALSE),
               Step("Request approval if required", FALSE),
               Step("Send email", TRUE),
               Step("Log email activity", FALSE) >>
      [] task_type = "social_media" ->
            << Step("Analyze post content", FALSE),
               Step("Check content guidelines", FALSE),
               Step("Prepare post draft", FALSE),
               Step("Request human approval", FALSE),
               Step("Publish post", TRUE),
               Step("Log social media activity", FALSE) >>
      [] task_type = "financial" ->
            << Step("Analyze financial transaction", FALSE),
               Step("Validate amount and recipient", FALSE),
               Step("Check approval threshold", FALSE),
               Step("Request human approval (mandatory)", FALSE),
               Step("Execute transaction", TRUE),
               Step("Log financial activity", FALSE),
               Step("Generate receipt", FALSE) >>
      [] OTHER ->
            << Step("Analyze task requirements", FALSE),
               Step("Identify required resources", FALSE),
               Step("Execute main action", FALSE),
               Step("Verify completion", FALSE),
               Step("Log activity", FALSE) >>

\* f"approval_{analysis['task_name']}_{timestamp}.md"
ApprovalFileName(task_name, timestamp) ==
    <<"approval", "_", task_name, "_", ToString(timestamp), ".md">>

\* the content _request_approval writes
RalphApprovalDocument ==
    [details |-> 0, area |-> {RalphPendingLine}, readable |-> TRUE, notes |-> <<>>]

RalphIdle ==
    [pc |-> "idle", runs |-> 0, max_iterations |-> 0, require_approval |-> FALSE,
     dry_run |-> FALSE, task_type |-> "", steps |-> <<>>, statuses |-> <<>>,
     current_step |-> 0, current_iteration |-> 0, all_success |-> TRUE,
     approval_path |-> None, executed |-> <<>>, plan |-> "none", task |-> "none",
     success |-> FALSE, readable |-> TRUE, log |-> 0, dashboard |-> 0,
     risky_executions |-> 0]

\* a new RalphWiggumLoop at the call of _execute_loop: run_loop has logged
\* its start, and _analyze_task and _create_plan are done; _create_plan
\* writes the plan unless it is a dry run, and logs it in any case.
\* Logs/ralph_wiggum.log is counted in lines, Dashboard.md in the entries
\* of the loop.
Started(task_type, readable, max_iterations, require_approval, dry_run) ==
    LET steps == _generate_steps(task_type)
    IN  [RalphIdle EXCEPT
           !.pc = "loop",
           !.runs = ralph.runs + 1,
           !.max_iterations = max_iterations,
           !.require_approval = require_approval,
           !.dry_run = dry_run,
           !.task_type = task_type,
           !.readable = readable,
           !.steps = steps,
           !.statuses = [i \in 1..Len(steps) |-> "none"],
           !.plan = IF dry_run THEN "none" ELSE "Plans",
           !.task = "Needs_Action",
           !.log = ralph.log + 2,
           !.dashboard = ralph.dashboard]

\* run_loop on a new RalphWiggumLoop and a new task document, up to the
\* call of _execute_loop
run_loop(content, readable, max_iterations, require_approval, dry_run) ==
    /\ ralph.pc \in {"idle", "returned"}
    /\ ralph' = Started(_analyze_task(content, readable), readable, max_iterations,
                        require_approval, dry_run)
    /\ UNCHANGED gatewayVars

\* run_loop of a new RalphWiggumLoop with the same settings, when the
\* document of the last run is still in Needs_Action: _find_next_task
\* returns it again
RunAgain ==
    /\ ralph.pc = "returned"
    /\ ralph.task = "Needs_Action"
    /\ ralph' = [Started(ralph.task_type, ralph.readable, ralph.max_iterations,
                         ralph.require_approval, ralph.dry_run)
                    EXCEPT !.risky_executions = ralph.risky_executions]
    /\ UNCHANGED gatewayVars

\* the ceiling stops the step that reaches it
CeilingPassed_at_ceiling(iteration, max_iterations) == iteration >= max_iterations

\* _execute_loop: if self.current_iteration > self.max_iterations
CeilingPassed(iteration, max_iterations) == iteration > max_iterations

\* _execute_loop: the next step is taken up.  The loop ends when the
\* iteration count passes max_iterations; a risky step under
\* require_approval goes through _request_approval, which in a dry run
\* returns at once and otherwise writes the approval file and returns True;
\* any other step is executed.  Every branch logs what it does.
LoopIteration ==
    /\ ralph.pc = "loop"
    /\ ralph.current_step < Len(ralph.steps)
    /\ LET i == ralph.current_step + 1
           iteration == ralph.current_iteration + 1
           step == ralph.steps[i]
           counted == [ralph EXCEPT !.current_step = i, !.current_iteration = iteration]
       IN IF CeilingPassed(iteration, ralph.max_iterations)
          THEN /\ ralph' = [counted EXCEPT !.pc = "returned", !.success = FALSE,
                                           !.log = @ + 1]
               /\ UNCHANGED <<needs_approval, listing>>
          ELSE IF step.risky /\ ralph.require_approval /\ ~ralph.dry_run
          THEN LET approval_path == ApprovalFileName("task", now)
               IN /\ needs_approval' =
                        WriteFile(needs_approval, approval_path, RalphApprovalDocument)
                  /\ IF approval_path \in DOMAIN needs_approval
                     THEN listing' = listing
                     ELSE \E k \in 0..Len(listing) :
                             listing' = InsertAt(listing, k, approval_path)
                  /\ ralph' = [counted EXCEPT !.pc = "execute",
                                              !.approval_path = approval_path,
                                              !.log = @ + 3]
          ELSE /\ ralph' = [counted EXCEPT
                              !.pc = "execute",
                              !.log = IF step.risky /\ ralph.require_approval
                                      THEN @ + 2 ELSE @ + 1]
               /\ UNCHANGED <<needs_approval, listing>>
    /\ needs_approval_exists' = TRUE
    /\ UNCHANGED <<approved, rejected, needs_action, now, skill, fin, ret, nCreates,
                   nStops>>

\* _execute_step after the approval part: _simulate_step_execution returns
\* True and the step is completed.  The record of the execution keeps what
\* the approval file of the step said at that moment.
ExecuteStep ==
    /\ ralph.pc = "execute"
    /\ LET i == ralph.current_step
           decision == IF ralph.approval_path = None THEN "NONE"
                       ELSE _parse_status(needs_approval[ralph.approval_path])
       IN ralph' = [ralph EXCEPT
                      !.pc = "loop",
                      !.statuses[i] = "completed",
                      !.approval_path = None,
                      !.log = @ + 1,
                      !.risky_executions = IF ralph.steps[i].risky /\ ~ralph.dry_run
                                           THEN @ + 1 ELSE @,
                      !.executed = Append(@, [step |-> i, risky |-> ralph.steps[i].risky,
                                              decision |-> decision])]
    /\ UNCHANGED gatewayVars

\* what the two shutil.move calls of _move_to_done do
MoveOutcomesOfLoop == {"ok", "task fails", "plan fails"}

\* _execute_loop returns all_success after the last step and run_loop calls
\* _move_to_done, which in a dry run only logs; otherwise it moves the task,
\* then the plan, logs and adds a dashboard entry; an exception of a move
\* is logged and ends it.  run_loop sets success after the call.
LoopEnd(move) ==
    /\ ralph.pc = "loop"
    /\ ralph.current_step = Len(ralph.steps)
    /\ LET moving == ralph.all_success /\ ~ralph.dry_run
       IN ralph' = [ralph EXCEPT
                      !.pc = "returned",
                      !.success = ralph.all_success,
                      !.task = IF moving /\ move # "task fails" THEN "Done" ELSE @,
                      !.plan = IF moving /\ move = "ok" THEN "Done" ELSE @,
                      !.dashboard = IF moving /\ move = "ok" THEN @ + 1 ELSE @,
                      !.log = IF ralph.all_success THEN @ + 1 ELSE @]
    /\ UNCHANGED gatewayVars

-----------------------------------------------------------------------------
(* The task planner: scripts/task_planner.py *)

DEFAULT_CHECK_INTERVAL == 30

\* the names of the files put into the inbox, in sorted order
InboxNames == << <<"a", ".md">>, <<"b", ".md">> >>

\* the byte contents of the files
Contents == {"c1", "c2"}

\* a file: its bytes, whether it can be opened, whether its bytes are UTF-8
File(content, readable, utf8) ==
    [content |-> content, readable |-> readable, utf8 |-> utf8]

\* hashlib.sha256(content).hexdigest()
sha256(content) == <<"sha256", content>>

\* _compute_file_hash: None when the file cannot be opened and read
_compute_file_hash(file) ==
    IF file.readable THEN sha256(file.content) ELSE None

\* _read_file_content: the text as UTF-8, else as latin-1, else a
\* placeholder that names the error
_read_file_content(file) ==
    IF ~file.readable THEN <<"[Error reading file]">>
    ELSE IF file.utf8 THEN <<"utf-8", file.content>>
    ELSE <<"latin-1", file.content>>

\* sorted(os.listdir(inbox_path))
SortedListing(dir) == SelectSeq(InboxNames, LAMBDA n : n \in DOMAIN dir)

\* _scan_inbox: the loop body for one file name; no entry for a name that
\* does not end in .md or whose hash is None
FileInfo(dir, filename) ==
    IF ~EndsWithMd(filename) \/ _compute_file_hash(dir[filename]) = None
    THEN <<>>
    ELSE << [filename |-> filename,
             hash |-> _compute_file_hash(dir[filename]),
             content |-> _read_file_content(dir[filename])] >>

RECURSIVE ScanFrom(_, _)
ScanFrom(dir, names) ==
    IF names = <<>> THEN <<>>
    ELSE FileInfo(dir, Head(names)) \o ScanFrom(dir, Tail(names))

\* _scan_inbox: the entries of the files that could be hashed
_scan_inbox(dir) == ScanFrom(dir, SortedListing(dir))

\* the hash_error entries _compute_file_hash logs during a scan
HashErrors(dir) ==
    { <<"hash_error", n>> : n \in { m \in DOMAIN dir : EndsWithMd(m) /\ ~dir[m].readable } }

\* os.path.splitext(filename)[0]
BaseName(filename) == SubSeq(filename, 1, Len(filename) - 1)

\* _save_plan: Plan_{base_name}_{timestamp}.md, the time in whole seconds
PlanFileName(filename, timestamp) ==
    <<"Plan_">> \o BaseName(filename) \o <<"_", ToString(timestamp), ".md">>

\* _generate_plan: the plan names the file and carries its summary
_generate_plan(filename, content) == [original |-> filename, summary |-> content]

\* _move_to_done: the name in Done, with a time stamp if it is taken
DonePath(dir, filename, timestamp) ==
    IF filename \in DOMAIN dir
    THEN BaseName(filename) \o <<"_", ToString(timestamp), ".md">>
    ELSE filename

\* _update_dashboard: the entry inserted right after the marker
DashboardEntry(filename, plan_path) == [filename |-> filename, plan |-> plan_path]

\* the tracking file: absent, a JSON object with processed_files, a JSON
\* text cut short, a JSON array, bytes that are not UTF-8, or a file that
\* cannot be opened
TrackingKinds == {"missing", "object", "truncated", "array", "undecodable", "unreadable"}
CorruptKinds == {"truncated", "array", "undecodable", "unreadable"}
TrackingData(kind, processed_files) ==
    [kind |-> kind, processed_files |-> processed_files]

\* _load_tracking_data: only json.JSONDecodeError and KeyError are caught,
\* and nothing is logged; whatever else open, read or data.get raise leaves
\* the constructor
LoadRaises(file) == file.kind \in {"array", "undecodable", "unreadable"}

_load_tracking_data(file) ==
    IF file.kind = "object" THEN file.processed_files ELSE {}

\* the processed set never holds a hash
is_processed_never(processed_files, file_hash) == FALSE

\* TaskTracker.is_processed
is_processed(processed_files, file_hash) == file_hash \in processed_files

TrackerIdle ==
    [pc |-> "stopped", once |-> TRUE, _processed_files |-> {}, files |-> <<>>, i |-> 0,
     plan_path |-> None, done_path |-> None, files_processed |-> 0, files_skipped |-> 0,
     results |-> <<>>, runs |-> 0, passes |-> 0, scans |-> 0]

\* the file the for loop of task_planner_skill is at
Current == tracker.files[tracker.i]

\* task_planner_skill up to the while loop: the TaskTracker is built
\* outside the try, so an exception of _load_tracking_data ends the call
task_planner_skill(once) ==
    /\ tracker.pc \in {"stopped", "returned", "failed"}
    /\ tracker' = [TrackerIdle EXCEPT
                     !.pc = IF LoadRaises(tracking_file) THEN "failed" ELSE "scan",
                     !.once = once,
                     !._processed_files = _load_tracking_data(tracking_file),
                     !.runs = tracker.runs + 1,
                     !.passes = tracker.passes]
    /\ UNCHANGED <<inbox, plan_files, done, dashboard, tracking_file, actions_log,
                   nDrops, now>>

\* the head of the while loop: files = _scan_inbox(inbox_path)
ScanInbox ==
    /\ tracker.pc = "scan"
    /\ tracker' = [tracker EXCEPT !.pc = "file", !.files = _scan_inbox(inbox), !.i = 1,
                                  !.results = <<>>, !.passes = @ + 1, !.scans = @ + 1]
    /\ actions_log' = actions_log \cup HashErrors(inbox)
    /\ UNCHANGED <<inbox, plan_files, done, dashboard, tracking_file, nDrops, now>>

\* an error result ends the for loop
Continue_until_error(t, status) ==
    [t EXCEPT !.pc = "file", !.i = IF status = "error" THEN Len(t.files) + 1 ELSE @ + 1,
              !.results = Append(@, status), !.plan_path = None, !.done_path = None]

\* the for loop goes on with the next file of the scan
Continue(t, status) ==
    [t EXCEPT !.pc = "file", !.i = @ + 1, !.results = Append(@, status),
              !.plan_path = None, !.done_path = None]

\* the head of the for loop: a file whose hash is in the processed set is
\* counted as skipped, any other is given to _process_file
NextFile ==
    /\ tracker.pc = "file"
    /\ tracker.i <= Len(tracker.files)
    /\ tracker' = IF is_processed(tracker._processed_files, Current.hash)
                  THEN [Continue(tracker, "skipped") EXCEPT !.files_skipped = @ + 1]
                  ELSE [tracker EXCEPT !.pc = "save_plan"]
    /\ UNCHANGED <<inbox, plan_files, done, dashboard, tracking_file, actions_log,
                   nDrops, now>>

\* _process_file: _analyze_content, _generate_plan and _save_plan.  When
\* the plan cannot be written _save_plan logs and returns None, _process_file
\* raises, catches, logs and returns the error result, and the loop goes on.
SavePlan(ok) ==
    /\ tracker.pc = "save_plan"
    /\ IF ok
       THEN /\ plan_files' = WriteFile(plan_files, PlanFileName(Current.filename, now),
                                       _generate_plan(Current.filename, Current.content))
            /\ tracker' = [tracker EXCEPT !.pc = "move",
                                          !.plan_path = PlanFileName(Current.filename, now)]
            /\ actions_log' = actions_log
       ELSE /\ plan_files' = plan_files
            /\ tracker' = Continue(tracker, "error")
            /\ actions_log' = actions_log \cup { <<"plan_save_error", Current.filename>>,
                                                  <<"process_error", Current.filename>> }
    /\ UNCHANGED <<inbox, done, dashboard, tracking_file, nDrops, now>>

\* _process_file: _move_to_done.  A failure of the move is logged and
\* done_path is None; _process_file goes on.
MoveToDone(ok) ==
    /\ tracker.pc = "move"
    /\ IF ok /\ Current.filename \in DOMAIN inbox
       THEN /\ done' = WriteFile(done, DonePath(done, Current.filename, now),
                                 inbox[Current.filename])
            /\ inbox' = RemoveFile(inbox, Current.filename)
            /\ tracker' = [tracker EXCEPT !.pc = "dashboard",
                                          !.done_path = DonePath(done, Current.filename, now)]
            /\ actions_log' = actions_log
       ELSE /\ UNCHANGED <<done, inbox>>
            /\ tracker' = [tracker EXCEPT !.pc = "dashboard"]
            /\ actions_log' = actions_log \cup { <<"move_error", Current.filename>> }
    /\ UNCHANGED <<plan_files, dashboard, tracking_file, nDrops, now>>

\* _process_file: _update_dashboard, whose failure is logged
UpdateDashboard(ok) ==
    /\ tracker.pc = "dashboard"
    /\ IF ok
       THEN /\ dashboard' = <<DashboardEntry(Current.filename, tracker.plan_path)>>
                               \o dashboard
            /\ actions_log' = actions_log
       ELSE /\ dashboard' = dashboard
            /\ actions_log' = actions_log \cup { <<"dashboard_error", Current.filename>> }
    /\ tracker' = [tracker EXCEPT !.pc = "mark"]
    /\ UNCHANGED <<inbox, plan_files, done, tracking_file, nDrops, now>>

\* _process_file: tracker.mark_processed adds the hash to the set and
\* writes the whole set to the tracking file; a failure of the write is
\* logged.  The result is a success.
mark_processed(ok) ==
    /\ tracker.pc = "mark"
    /\ LET processed == tracker._processed_files \cup {Current.hash}
       IN /\ tracker' = [Continue(tracker, "success") EXCEPT
                           !._processed_files = processed,
                           !.files_processed = @ + 1]
          /\ IF ok
             THEN /\ tracking_file' = TrackingData("object", processed)
                  /\ actions_log' = actions_log
             ELSE /\ tracking_file' = tracking_file
                  /\ actions_log' = actions_log
                                       \cup { <<"tracking_save_error", Current.filename>> }
    /\ UNCHANGED <<inbox, plan_files, done, dashboard, nDrops, now>>

\* the end of the for loop: in once mode the call returns, otherwise it
\* sleeps for check_interval seconds and scans again
EndOfPass ==
    /\ tracker.pc = "file"
    /\ tracker.i > Len(tracker.files)
    /\ IF tracker.once
       THEN /\ tracker' = [tracker EXCEPT !.pc = "returned"]
            /\ now' = now
       ELSE /\ tracker' = [tracker EXCEPT !.pc = "scan"]
            /\ now' = now + DEFAULT_CHECK_INTERVAL
    /\ UNCHANGED <<inbox, plan_files, done, dashboard, tracking_file, actions_log, nDrops>>

\* the process is killed: what the TaskTracker held in memory is gone
Crash ==
    /\ tracker.pc \notin {"stopped", "returned", "failed"}
    /\ tracker' = [TrackerIdle EXCEPT !.runs = tracker.runs, !.passes = tracker.passes]
    /\ UNCHANGED <<inbox, plan_files, done, dashboard, tracking_file, actions_log,
                   nDrops, now>>

\* somebody puts a file into the inbox
Drop(filename, file) ==
    /\ filename \notin DOMAIN inbox
    /\ inbox' = WriteFile(inbox, filename, file)
    /\ nDrops' = nDrops + 1
    /\ UNCHANGED <<plan_files, done, dashboard, tracking_file, actions_log, tracker, now>>

\* the tracking file is damaged between two runs
Damage(kind) ==
    /\ tracker.pc \in {"stopped", "returned", "failed"}
    /\ tracking_file.kind \notin CorruptKinds
    /\ tracking_file' = TrackingData(kind, {})
    /\ UNCHANGED <<inbox, plan_files, done, dashboard, actions_log, tracker, nDrops, now>>

-----------------------------------------------------------------------------
(* The classifiers: RalphWiggumLoop._analyze_task and _analyze_content *)

\* the words a task text is made of
Words == {"email", "post", "delete", "Payment", "report", "meeting", "URGENT"}

\* content.lower(), word by word
LowerWord(word) ==
    CASE word = "Payment" -> "payment"
      [] word = "URGENT" -> "urgent"
      [] OTHER -> word

content_lower(text) == { LowerWord(w) : w \in text }

\* any(kw in content_lower for kw in keywords)
AnyIn(keywords, text) == keywords \cap content_lower(text) # {}

\* the keyword lists of _analyze_task
RalphKeywords(group) ==
    CASE group = "email" -> {"email", "send", "recipient"}
      [] group = "social" -> {"linkedin", "post", "social"}
      [] group = "destructive" -> {"delete", "remove", "destroy"}
      [] group = "financial" -> {"payment", "money", "transfer", "invoice"}

\* the keyword groups of _analyze_task present in a text
RalphContent(text) == { g \in Keywords : AnyIn(RalphKeywords(g), text) }

\* RiskLevel, from the lowest to the highest
RiskLevels == <<"low", "medium", "high", "critical">>

\* _analyze_task: the risk level set next to the task type
risk_level(content, readable) ==
    IF ~readable THEN "low"
    ELSE IF "financial" \in content THEN "high"
    ELSE IF "destructive" \in content THEN "high"
    ELSE IF "social" \in content THEN "medium"
    ELSE IF "email" \in content THEN "medium"
    ELSE "low"

\* the keyword lists of _analyze_content
PlannerKeywords(task_type) ==
    CASE task_type = "email" -> {"email", "send", "recipient", "subject"}
      [] task_type = "social_media" -> {"linkedin", "post", "social", "publish"}
      [] task_type = "document_review" -> {"report", "analysis", "document", "review"}
      [] task_type = "scheduling" -> {"meeting", "schedule", "calendar", "attend"}

\* _analyze_content: the task type; the tests are made one after the
\* other and each one that matches overrides the type set before
_analyze_content(text) ==
    IF AnyIn(PlannerKeywords("scheduling"), text) THEN "scheduling"
    ELSE IF AnyIn(PlannerKeywords("document_review"), text) THEN "document_review"
    ELSE IF AnyIn(PlannerKeywords("social_media"), text) THEN "social_media"
    ELSE IF AnyIn(PlannerKeywords("email"), text) THEN "email"
    ELSE "general"

\* _analyze_content: the priority
priority(text) ==
    IF AnyIn({"urgent", "asap", "immediate", "priority", "critical"}, text)
    THEN "urgent" ELSE "normal"

NotClassified == <<>>
ToClassify(text) == [text |-> text, ralph |-> NotClassified, planner |-> NotClassified]

\* RalphWiggumLoop._analyze_task on a task file with the text
AnalyzeTask ==
    /\ analysis.ralph = NotClassified
    /\ analysis' = [analysis EXCEPT !.ralph =
                      [task_type |-> _analyze_task(RalphContent(analysis.text), TRUE),
                       risk_level |-> risk_level(RalphContent(analysis.text), TRUE)]]

\* task_planner._analyze_content on the text
AnalyzeContent ==
    /\ analysis.planner = NotClassified
    /\ analysis' = [analysis EXCEPT !.planner =
                      [task_type |-> _analyze_content(analysis.text),
                       priority |-> priority(analysis.text)]]

-----------------------------------------------------------------------------
(* The orchestrator: orchestrator.py *)

\* the markdown files of Needs_Action
OrchNames == { <<"x", ".md">>, <<"y", ".md">>, <<"z", ".md">> }

\* scan_needs_action_folder: the files in the order of os.listdir
OrchListings ==
    { l \in UNION { [1..n -> OrchNames] : n \in 0..MaxOrchFiles } :
        \A j, k \in 1..Len(l) : j # k => l[j] # l[k] }

OrchIdle ==
    [pc |-> "idle", markdown_files |-> <<>>, i |-> 0, processed_files |-> {},
     plans |-> {}, moved |-> {}, all_activity_entries |-> <<>>, results |-> <<>>,
     dashboard |-> <<>>]

\* plan_{name}.md
OrchPlanName(original_filename) ==
    <<"plan_">> \o SubSeq(original_filename, 1, Len(original_filename) - 1) \o <<".md">>

\* process_needs_action_files up to the for loop; it returns at once when
\* there is no markdown file
process_needs_action_files(markdown_files) ==
    /\ orch.pc = "idle"
    /\ orch' = [OrchIdle EXCEPT
                  !.pc = IF markdown_files = <<>> THEN "returned" ELSE "file",
                  !.markdown_files = markdown_files,
                  !.i = 1]

\* one iteration of the for loop.  create_plan_file and move_to_done raise
\* when the file operation fails; the handler of the loop body logs the
\* error and the loop goes on.
OrchFile(plan_ok, move_ok) ==
    /\ orch.pc = "file"
    /\ orch.i <= Len(orch.markdown_files)
    /\ LET filepath == orch.markdown_files[orch.i]
           next == [orch EXCEPT !.i = @ + 1]
       IN orch' =
            IF filepath \in orch.processed_files
            THEN [next EXCEPT !.results = Append(@, "duplicate")]
            ELSE IF ~plan_ok
            THEN [next EXCEPT !.results = Append(@, "error")]
            ELSE IF ~move_ok
            THEN [next EXCEPT !.results = Append(@, "error"),
                              !.plans = @ \cup {OrchPlanName(filepath)}]
            ELSE [next EXCEPT !.results = Append(@, "success"),
                              !.plans = @ \cup {OrchPlanName(filepath)},
                              !.moved = @ \cup {filepath},
                              !.all_activity_entries = Append(@, filepath),
                              !.processed_files = @ \cup {filepath}]

\* after the loop: safe_update_dashboard with the collected entries, whose
\* failure is printed
OrchEnd(dashboard_ok) ==
    /\ orch.pc = "file"
    /\ orch.i > Len(orch.markdown_files)
    /\ orch' = [orch EXCEPT
                  !.pc = "returned",
                  !.dashboard = IF dashboard_ok THEN orch.all_activity_entries ELSE <<>>]

-----------------------------------------------------------------------------
(* The scheduler's lock file: scripts/run_ai_employee.py (on Unix) *)

Instances == 1..NumInstances

\* Logs/ai_employee.lock names an inode or nothing; an inode lives while the
\* path names it or a process has it open, so NumInstances + 1 are enough
Inodes == 1..(NumInstances + 1)
NoInode == 0
NoFd == 0
NoOne == 0
\* a file of no bytes
EmptyFile == <<>>

\* json.dump writes the text of an object; json.load reads an object from a
\* text and raises JSONDecodeError on an empty one
json_dump(obj) == <<"json", obj>>
json_load(text) == IF Len(text) = 2 /\ text[1] = "json" THEN text[2] ELSE None

NoLockFile ==
    [path |-> NoInode,
     content |-> [n \in Inodes |-> EmptyFile],
     flock |-> [n \in Inodes |-> NoOne]]

SchedulerIdle ==
    [pc |-> "idle", once |-> FALSE, lock_fd |-> NoFd, iterations |-> 0,
     exit_code |-> 0]

NoStatus == [queried |-> FALSE, is_running |-> FALSE]

\* the inodes in use
LiveInodes == {lockfs.path} \cup { sched[i].lock_fd : i \in Instances }

\* an inode nobody names or has open any more is gone
Collect(fs, s) ==
    LET live == {fs.path} \cup { s[i].lock_fd : i \in Instances }
    IN  [fs EXCEPT !.content = [n \in Inodes |->
                                    IF n \in live THEN fs.content[n] ELSE EmptyFile]]

\* run_daemon / run_once call acquire, which begins with open(lock_file, 'w'):
\* the file is created, or an existing one is truncated, before any lock is
\* tried
Open(i, once) ==
    /\ sched[i].pc = "idle"
    /\ LET n == IF lockfs.path # NoInode THEN lockfs.path
                ELSE CHOOSE m \in Inodes : m \notin LiveInodes
                        /\ \A k \in Inodes : k \notin LiveInodes => m <= k
       IN  /\ lockfs' = [lockfs EXCEPT !.path = n, !.content[n] = EmptyFile]
           /\ sched' = [sched EXCEPT ![i] =
                           [pc |-> "opened", once |-> once, lock_fd |-> n,
                            iterations |-> 0, exit_code |-> 0]]
    /\ UNCHANGED last_status

\* fcntl.flock(LOCK_EX | LOCK_NB) on the opened file.  When another open
\* file holds the lock it raises: acquire closes its file and returns False,
\* and the scheduler reads check_existing for its message and returns 1.
Flock(i) ==
    /\ sched[i].pc = "opened"
    /\ IF lockfs.flock[sched[i].lock_fd] = NoOne
       THEN /\ lockfs' = [lockfs EXCEPT !.flock[sched[i].lock_fd] = i]
            /\ sched' = [sched EXCEPT ![i].pc = "locked"]
       ELSE LET s == [sched EXCEPT ![i].pc = "idle", ![i].lock_fd = NoFd,
                                   ![i].exit_code = 1]
            IN  /\ sched' = s
                /\ lockfs' = Collect(lockfs, s)
    /\ UNCHANGED last_status

\* the lock info of acquire
lock_info(i) == [pid |-> i, started_at |-> now]

\* json.dump(lock_info) and flush; acquire returns True
WriteInfo(i) ==
    /\ sched[i].pc = "locked"
    /\ lockfs' = [lockfs EXCEPT !.content[sched[i].lock_fd] = json_dump(lock_info(i))]
    /\ sched' = [sched EXCEPT ![i].pc = "running"]
    /\ UNCHANGED last_status

\* run_iteration: the watcher and the planner are run once
run_iteration(i) ==
    /\ sched[i].pc = "running"
    /\ sched[i].iterations < MaxIterationsOfRun
    /\ sched' = [sched EXCEPT ![i].iterations = @ + 1]
    /\ UNCHANGED <<lockfs, last_status>>

\* release, first statement: flock(LOCK_UN).  run_once releases after its
\* iteration, run_daemon when a signal or Ctrl+C ended its loop.
Unlock(i) ==
    /\ sched[i].pc = "running"
    /\ sched[i].once => sched[i].iterations = 1
    /\ lockfs' = [lockfs EXCEPT !.flock[sched[i].lock_fd] = NoOne]
    /\ sched' = [sched EXCEPT ![i].pc = "unlocked"]
    /\ UNCHANGED last_status

\* release, second statement: lock_fd.close()
Close(i) ==
    /\ sched[i].pc = "unlocked"
    /\ LET s == [sched EXCEPT ![i].pc = "closed", ![i].lock_fd = NoFd]
       IN  /\ sched' = s
           /\ lockfs' = Collect(lockfs, s)
    /\ UNCHANGED last_status

\* release, third statement: os.remove(lock_file) when the path exists,
\* whichever file it names by now; the scheduler returns
Remove(i) ==
    /\ sched[i].pc = "closed"
    /\ sched' = [sched EXCEPT ![i].pc = "idle"]
    /\ lockfs' = Collect([lockfs EXCEPT !.path = NoInode], sched')
    /\ UNCHANGED last_status

\* the process is killed: the system closes its file, which drops its lock;
\* nothing removes the lock file
Kill(i) ==
    /\ sched[i].pc # "idle"
    /\ LET s == [sched EXCEPT ![i].pc = "idle", ![i].lock_fd = NoFd]
           fd == sched[i].lock_fd
           fs == IF fd # NoFd /\ lockfs.flock[fd] = i
                 THEN [lockfs EXCEPT !.flock[fd] = NoOne] ELSE lockfs
       IN  /\ sched' = s
           /\ lockfs' = Collect(fs, s)
    /\ UNCHANGED last_status

\* check_existing: the lock info read from the lock file; None when the
\* file does not exist or does not hold JSON
check_existing ==
    IF lockfs.path = NoInode THEN None
    ELSE json_load(lockfs.content[lockfs.path])

\* show_status: is_running = lock_info is not None
show_status ==
    /\ last_status' = [queried |-> TRUE, is_running |-> check_existing # None]
    /\ UNCHANGED <<lockfs, sched>>

-----------------------------------------------------------------------------
(* Error recovery: scripts/error_recovery.py *)

ErrorTypes ==
    {"PermissionError", "ValidationError", "ConfigurationError",
     "AuthenticationError", "FileNotFoundError", "TimeoutError"}

Severities == {"low", "medium", "high", "critical"}

\* file_path of handle_error: none given, a file that exists, one that
\* does not
FilePaths == {"None", "exists", "missing"}

\* shutil.move and the writing of the metadata file in _move_to_errors
MoveOutcomes == {"ok", "move fails", "metadata fails"}

\* what retry_func does: returns a true value, a false one, or raises
RetryOutcomes == {"true", "false", "raises"}

\* retry_delay of handle_error: not given, or a second
RetryDelays == {0, 1}

RecoveryIdle ==
    [pc |-> "idle", error_type |-> "None", severity |-> "None",
     retry_enabled |-> FALSE, retry_func |-> FALSE, retry_delay |-> 0,
     file_path |-> "None", move |-> "ok", file |-> "None",
     moved_path |-> FALSE, retry_calls |-> 0, status |-> "None", success |-> FALSE, retry_attempted |-> FALSE,
     retry_success |-> FALSE, errors |-> 0]

no_retry_errors ==
    {"PermissionError", "ValidationError", "ConfigurationError",
     "AuthenticationError"}

_should_retry_always(error_type, severity) == TRUE

_should_retry(error_type, severity) ==
    IF severity = "critical" THEN FALSE
    ELSE IF error_type \in no_retry_errors THEN FALSE
    ELSE TRUE

\* _move_to_errors: where the file is afterwards, and whether a path is
\* returned
_move_to_errors(file_path, outcome) ==
    IF file_path # "exists" THEN [file |-> file_path, moved_path |-> FALSE]
    ELSE IF outcome = "move fails" THEN [file |-> "exists", moved_path |-> FALSE]
    ELSE [file |-> "Errors", moved_path |-> (outcome = "ok")]

\* the final status of handle_error: status failed, severity high unless
\* critical
Failed(r) ==
    [r EXCEPT !.pc = "returned", !.status = "failed",
              !.severity = IF r.severity # "critical" THEN "high" ELSE "critical"]

\* handle_error up to the retry: the error is logged, the file moved to the
\* errors directory, and the retry decided; without a retry the final
\* status is written and the result returned
handle_error(error_type, file_path, retry_enabled, retry_delay, severity, retry_func, move) ==
    /\ recovery.pc = "idle"
    /\ recovery.errors < MaxErrors
    /\ LET moved == IF file_path # "None" THEN _move_to_errors(file_path, move)
                    ELSE [file |-> "None", moved_path |-> FALSE]
           should_retry ==
               retry_enabled /\ _should_retry(error_type, severity) /\ retry_func
           r == [pc |-> "retry", error_type |-> error_type, severity |-> severity,
                 retry_enabled |-> retry_enabled, retry_func |-> retry_func,
                 retry_delay |-> retry_delay,
                 file_path |-> file_path, move |-> move,
                 file |-> moved.file, moved_path |-> moved.moved_path,
                 retry_calls |-> 0, status |-> "retry_scheduled",
                 success |-> FALSE, retry_attempted |-> FALSE,
                 retry_success |-> FALSE, errors |-> recovery.errors + 1]
       IN  recovery' = IF should_retry THEN r ELSE Failed(r)
    /\ UNCHANGED now

\* the retry: time.sleep(actual_delay), then retry_func() once
Retry(outcome) ==
    /\ recovery.pc = "retry"
    /\ now' = now + (IF recovery.retry_delay # 0 THEN recovery.retry_delay
                     ELSE Config_DEFAULT_RETRY_DELAY)
    /\ LET r == [recovery EXCEPT !.retry_calls = @ + 1]
       IN  recovery' =
             IF outcome = "true"
             THEN [r EXCEPT !.pc = "returned", !.status = "recovered",
                            !.retry_attempted = TRUE, !.retry_success = TRUE,
                            !.success = TRUE]
             ELSE IF outcome = "raises"
             THEN Failed([r EXCEPT !.retry_attempted = TRUE])
             ELSE Failed(r)

\* the caller takes the result
RecoveryReturn ==
    /\ recovery.pc = "returned"
    /\ recovery' = [RecoveryIdle EXCEPT !.errors = recovery.errors]
    /\ UNCHANGED now

-----------------------------------------------------------------------------
(* The errors directory of scripts/error_recovery.py *)

\* the files handle_error is called with: <<directory, stem, suffix>>
FailedPaths ==
    { <<"Inbox", "a", ".md">>, <<"Needs_Action", "a", ".md">>, <<"Inbox", "b", ".md">> }

MaxDays == 3
DaysPerYear == 2
MaxFailedFiles == 2

\* datetime.now(): the year and the day of the calendar, and the clock
Year(day) == (day - 1) \div DaysPerYear
Timestamp(day) == [year |-> Year(day), day |-> day, second |-> now]

NoFiles == [p \in {} |-> 0]
NoQuarantine == [day |-> 1, files |-> NoFiles, errors |-> NoFiles, meta |-> NoFiles, nFiles |-> 0]

\* _generate_error_id: f"ERR-{timestamp}-{hash_suffix}", the suffix being
\* the head of the md5 of timestamp, error type and path
_generate_error_id(timestamp, error_type, file_path) ==
    [prefix |-> "ERR-", timestamp |-> timestamp,
     hash_suffix |-> <<"md5", timestamp, error_type, file_path>>]

\* error_id[:8]: "ERR-" and the four digits of the year
Head8(error_id) == <<error_id.prefix, error_id.timestamp.year>>

\* Errors/<today>/<name>, today being "%Y-%m-%d"
ErrorsPath(timestamp, stem, id8, suffix) ==
    [today |-> <<timestamp.year, timestamp.day>>, stem |-> stem, id8 |-> id8,
     suffix |-> suffix]

\* f"{base_name}_error_{error_id[:8]}{extension}"
new_path(file_path, error_id) ==
    ErrorsPath(error_id.timestamp, file_path[2], Head8(error_id), file_path[3])

\* f"{base_name}_error_{error_id[:8]}.meta.json"
meta_path(file_path, error_id) ==
    ErrorsPath(error_id.timestamp, file_path[2], Head8(error_id), ".meta.json")

\* _move_to_errors on the files: shutil.move puts the file at new_path,
\* in the place of a file that is there, and open(meta_path, 'w') writes
\* the metadata, in the place of metadata that is there.  An exception of
\* either ends the function.
MoveToErrors(q, file_path, error_id, error_type, outcome) ==
    IF file_path \notin DOMAIN q.files \/ outcome = "move fails" THEN q
    ELSE LET moved == [q EXCEPT
                         !.files = RemoveFile(q.files, file_path),
                         !.errors = WriteFile(q.errors, new_path(file_path, error_id),
                                              q.files[file_path])]
             metadata == [error_id |-> error_id, original_path |-> file_path,
                          moved_path |-> new_path(file_path, error_id),
                          error_type |-> error_type]
         IN IF outcome = "metadata fails" THEN moved
            ELSE [moved EXCEPT
                    !.meta = WriteFile(q.meta, meta_path(file_path, error_id), metadata)]

\* a file is written into the vault
PutFile(file_path) ==
    /\ file_path \notin DOMAIN quarantine.files
    /\ quarantine.nFiles < MaxFailedFiles
    /\ quarantine' = [quarantine EXCEPT
                        !.files = WriteFile(@, file_path, quarantine.nFiles + 1),
                        !.nFiles = @ + 1]
    /\ UNCHANGED <<recovery, now>>

\* midnight
NextDay ==
    /\ quarantine.day < MaxDays
    /\ quarantine' = [quarantine EXCEPT !.day = @ + 1]
    /\ UNCHANGED <<recovery, now>>

\* handle_error called with a file of the vault
HandleErrorOfFile(file_path, error_type, retry_enabled, retry_func, move) ==
    /\ LET exists == IF file_path \in DOMAIN quarantine.files THEN "exists" ELSE "missing"
           error_id == _generate_error_id(Timestamp(quarantine.day), error_type, file_path)
       IN /\ handle_error(error_type, exists, retry_enabled, 1, "medium", retry_func, move)
          /\ quarantine' = MoveToErrors(quarantine, file_path, error_id, error_type, move)


-----------------------------------------------------------------------------
(* The audit log Logs/actions.log, written by scripts/request_approval.py, *)
(* scripts/mcp_executor.py, scripts/task_planner.py, scripts/watch_inbox.py *)

\* a line of the log: the JSON text of an entry, or a line that is not JSON
Entry(event, subject, result) ==
    [json |-> TRUE, event |-> event, subject |-> subject, result |-> result]

\* what a writer that was killed inside f.write leaves at the end
PartialLine == [json |-> FALSE, event |-> "", subject |-> <<>>, result |-> ""]

\* ApprovalLogger._write_log: every line is read with json.loads, the new
\* entry is added to the list and the whole file is written anew; when a
\* line does not parse the list read so far is emptied
_write_log(log, log_entry) ==
    IF \A k \in 1..Len(log) : log[k].json
    THEN Append(log, log_entry)
    ELSE <<log_entry>>

\* ActionLogger._write_log of mcp_executor.py: the same statements
ActionLogger_write_log(log, log_entry) ==
    IF \A k \in 1..Len(log) : log[k].json
    THEN Append(log, log_entry)
    ELSE <<log_entry>>

\* _log_action of task_planner.py and of watch_inbox.py: open(ACTIONS_LOG, 'a')
_log_action(log, action, subject, result) ==
    Append(log, Entry(action, subject, result))

log_approval_request(log, request_id) ==
    _write_log(log, Entry("approval_request_created", request_id, ""))

log_approval_decision(log, request_id, result) ==
    _write_log(log, Entry("approval_decision", request_id, result))

log_timeout(log, request_id) ==
    _write_log(log, Entry("approval_timeout", request_id, ""))

log_file_operation(log, request_id, result) ==
    _write_log(log, Entry("file_operation", request_id, result))

\* ActionLogger.log_action
log_action(log, action_type, request_id, result) ==
    ActionLogger_write_log(log, Entry("action", <<action_type>> \o request_id, result))

\* vault_watcher_skill(once=True) of watch_inbox.py: the entries of one
\* scan for the files whose hash is not in the watcher's tracking file
Detected(dir, processed) ==
    SelectSeq(_scan_inbox(dir), LAMBDA f : f.hash \notin processed)

WatcherLines(files) ==
    [k \in 1..(3 * Len(files)) |->
        Entry(CASE k % 3 = 1 -> "file_detected"
                [] k % 3 = 2 -> "ai_workflow_triggered"
                [] OTHER -> "file_processed",
              files[(k + 2) \div 3].filename, "success")]

vault_watcher_skill ==
    /\ LET files == Detected(inbox, watch_tracking)
       IN  /\ audit' = _log_action(audit, "watcher_started", <<>>, "success")
                          \o WatcherLines(files)
           /\ watch_tracking' = watch_tracking
                                   \cup { files[k].hash : k \in 1..Len(files) }
    /\ UNCHANGED <<plannerVars, now>>

\* task_planner_skill logs its start once the tracker is built
LoggedPlannerStart(once) ==
    /\ task_planner_skill(once)
    /\ audit' = IF tracker'.pc = "failed" THEN audit
                ELSE _log_action(audit, "task_planner_started", <<>>, "success")

\* _process_file logs content_analyzed, and plan_created when the plan was
\* saved
LoggedSavePlan ==
    /\ SavePlan(TRUE)
    /\ audit' = _log_action(
                   _log_action(audit, "content_analyzed", Current.filename, "success"),
                   "plan_created", Current.filename, "success")

\* _process_file logs file_moved
LoggedMoveToDone ==
    /\ MoveToDone(TRUE)
    /\ audit' = _log_action(audit, "file_moved", Current.filename, "success")

\* create_request logs the request; a wait_for_decision whose loop is not
\* entered logs the timeout at once
LoggedRequestApproval(request_id, timeout_minutes, poll_interval) ==
    /\ RequestApproval(request_id, timeout_minutes, poll_interval)
    /\ audit' = IF skill'.approval_result = "TIMEOUT"
                THEN log_timeout(log_approval_request(audit, request_id), request_id)
                ELSE log_approval_request(audit, request_id)

\* wait_for_decision logs the decision it returns
LoggedWaitIteration ==
    /\ WaitIteration
    /\ audit' = IF skill'.pc = "finalize"
                THEN log_approval_decision(audit, skill.request_id,
                                           skill'.approval_result)
                ELSE audit

\* wait_for_decision logs the timeout it returns
LoggedWaitSleep ==
    /\ WaitSleep
    /\ audit' = IF skill'.pc = "finalize" THEN log_timeout(audit, skill.request_id)
                ELSE audit

\* finalize_request logs the move
LoggedFinalizeEnd ==
    /\ FinalizeEnd
    /\ audit' = log_file_operation(audit, fin.request_id, fin.result)

\* execute_action logs the result it returns, on every path
LoggedExecuteAction(action_type, fields, max_retries) ==
    /\ execute_action(action_type, fields, NoRequest, max_retries)
    /\ audit' = IF exec'.pc = "returned"
                THEN log_action(audit, action_type, NoRequest, exec'.status)
                ELSE audit

Logged_execute ==
    /\ _execute
    /\ audit' = IF exec'.pc = "returned"
                THEN log_action(audit, exec.action_type, exec.request_id, exec'.status)
                ELSE audit

LoggedExecuteWithRetry(outcome) ==
    /\ execute_with_retry(outcome)
    /\ audit' = IF exec'.pc = "returned"
                THEN log_action(audit, exec.action_type, exec.request_id, exec'.status)
                ELSE audit

\* a process is killed inside the f.write of _log_action: a part of the
\* line is in the file
KilledInWrite ==
    /\ audit # <<>>
    /\ \A k \in 1..Len(audit) : audit[k].json
    /\ audit' = Append(audit, PartialLine)

-----------------------------------------------------------------------------
(* Processes that write Logs/actions.log at the same time *)

NumWriters == 2
MaxLogWrites == 3

Writers == 1..NumWriters

\* the loggers that read the whole log and write it anew
RewritingLoggers == {"ApprovalLogger", "ActionLogger"}

\* a process outside a write; written counts the entries it has logged
WriterIdle == [pc |-> "idle", existing_logs |-> <<>>, written |-> 0]

\* the k-th entry of process w
EntryOf(w, k) == Entry("action", <<ToString(w), ToString(k)>>, "")

\* _write_log up to existing_logs.append(log_entry): the file is read and
\* closed, and the list with the new entry is in memory
ReadLog(w, logger) ==
    /\ writers[w].pc = "idle"
    /\ writers[w].written < MaxLogWrites
    /\ LET log_entry == EntryOf(w, writers[w].written + 1)
           existing_logs == IF logger = "ApprovalLogger"
                            THEN _write_log(audit, log_entry)
                            ELSE ActionLogger_write_log(audit, log_entry)
       IN writers' = [writers EXCEPT ![w] = [pc |-> "write",
                                             existing_logs |-> existing_logs,
                                             written |-> @.written + 1]]
    /\ UNCHANGED audit

\* _write_log from open(self.log_file, 'w'): the file is written anew from
\* the list
RewriteLog(w) ==
    /\ writers[w].pc = "write"
    /\ audit' = writers[w].existing_logs
    /\ writers' = [writers EXCEPT ![w] = [@ EXCEPT !.pc = "idle", !.existing_logs = <<>>]]

\* _log_action of task_planner.py: one write at the end of the file
AppendLog(w) ==
    /\ writers[w].pc = "idle"
    /\ writers[w].written < MaxLogWrites
    /\ audit' = _log_action(audit, "action",
                            <<ToString(w), ToString(writers[w].written + 1)>>, "")
    /\ writers' = [writers EXCEPT ![w] = [@ EXCEPT !.written = @ + 1]]

-----------------------------------------------------------------------------
(* Specifications of the approval gateway *)


TimeoutMinutes == 0..MaxTimeoutMinutes
PollIntervals == {PollShort, PollLong}

\* the decisions a reviewer records
ReviewAreas == { {"status: APPROVED"}, {"status: REJECTED"} }

GatewayInit ==
    /\ needs_approval_exists = FALSE
    /\ needs_approval = EmptyDir
    /\ listing = <<>>
    /\ approved = EmptyDir
    /\ rejected = EmptyDir
    /\ needs_action = EmptyDir
    /\ now = 0
    /\ skill = SkillIdle
    /\ fin = FinIdle
    /\ ret = NoReturn
    /\ nCreates = 0
    /\ nStops = 0

InitButAnalysis ==
    /\ GatewayInit
    /\ exec = ExecIdle
    /\ ralph = RalphIdle
    /\ inbox = EmptyDir
    /\ plan_files = EmptyDir
    /\ done = EmptyDir
    /\ dashboard = <<>>
    /\ tracking_file = TrackingData("missing", {})
    /\ actions_log = {}
    /\ tracker = TrackerIdle
    /\ nDrops = 0
    /\ orch = OrchIdle
    /\ lockfs = NoLockFile
    /\ sched = [i \in Instances |-> SchedulerIdle]
    /\ last_status = NoStatus
    /\ audit = <<>>
    /\ watch_tracking = {}
    /\ recovery = RecoveryIdle
    /\ quarantine = NoQuarantine
    /\ writers = [w \in Writers |-> WriterIdle]

Init ==
    /\ InitButAnalysis
    /\ analysis = ToClassify({})

\* The gateway operations called one by one, and the reviewer
Next ==
    /\ \/ \E r \in RequestIds : nCreates < MaxCreates /\ CreateRequestCall(r)
       \/ \E r \in RequestIds : CheckStatusCall(r)
       \/ \E r \in RequestIds, result \in ApprovalResults : FinalizeRequestCall(r, result)
       \/ FinalizeEnd
       \/ StopMidway
       \/ \E n \in DOMAIN needs_approval, a \in ReviewAreas : HumanDecide(n, a)
    /\ UNCHANGED <<exec, ralph, otherVars>>

Spec == Init /\ [][Next]_vars

\* HumanApprovalSkill.request_approval(wait=True) with the reviewer, and the
\* gateway operations other callers run meanwhile
SkillNext ==
    /\ \/ \E r \in RequestIds, m \in TimeoutMinutes, p \in PollIntervals :
             nCreates < MaxSkillCreates /\ RequestApproval(r, m, p)
       \/ WaitIteration
       \/ WaitSleep
       \/ SkillFinalizeBegin
       \/ FinalizeEnd
       \/ \E r \in RequestIds : nCreates < MaxSkillCreates /\ CreateRequestCall(r)
       \/ \E r \in RequestIds, result \in ApprovalResults : FinalizeRequestCall(r, result)
       \/ \E n \in DOMAIN needs_approval, a \in ReviewAreas : HumanDecide(n, a)
    /\ UNCHANGED <<exec, ralph, otherVars>>

SpecSkill == Init /\ [][SkillNext]_vars

\* The status queries on every document a reviewer can leave
ParseNext ==
    /\ \/ \E r \in RequestIds : nCreates < MaxCreates /\ CreateRequestCall(r)
       \/ \E r \in RequestIds : CheckStatusCall(r)
       \/ \E r \in RequestIds : CheckApprovalStatusCall(r)
       \/ \E n \in DOMAIN needs_approval, a \in HumanAreas : HumanEdit(n, a)
       \/ \E n \in DOMAIN needs_approval : HumanSaveUndecodable(n)
    /\ UNCHANGED <<exec, ralph, otherVars>>

SpecParse == Init /\ [][ParseNext]_vars

\* One request id created and finalized again and again, and the clock
OneRequest == { <<"1">> }

FinalizeNext ==
    /\ \/ \E r \in OneRequest : nCreates < MaxRecreates /\ CreateRequestCall(r)
       \/ \E r \in OneRequest, result \in ApprovalResults : FinalizeRequestCall(r, result)
       \/ FinalizeEnd
       \/ Tick
    /\ UNCHANGED <<exec, ralph, otherVars>>

SpecFinalize == Init /\ [][FinalizeNext]_vars

\* HumanApprovalSkill.request_approval(wait=True) on one request after the
\* other, alone with the reviewer
WaitNext ==
    /\ \/ \E r \in OneRequest, m \in TimeoutMinutes, p \in PollIntervals :
             nCreates < MaxWaits /\ RequestApproval(r, m, p)
       \/ WaitIteration
       \/ WaitSleep
       \/ SkillFinalizeBegin
       \/ FinalizeEnd
       \/ \E n \in DOMAIN needs_approval, a \in ReviewAreas : HumanDecide(n, a)
    /\ UNCHANGED <<exec, ralph, otherVars>>

SpecWait == Init /\ [][WaitNext]_vars

\* MCPExecutor.execute_action called again and again, while requests are
\* created and the reviewer decides
ExecutorNext ==
    \/ /\ \/ \E r \in RequestIds : nCreates < MaxExecutorCreates /\ CreateRequestCall(r)
          \/ \E n \in DOMAIN needs_approval, a \in ReviewAreas : HumanDecide(n, a)
       /\ UNCHANGED <<exec, ralph, otherVars>>
    \/ /\ \/ \E t \in ActionTypeInputs, f \in BOOLEAN, r \in RequestIds \cup {NoRequest} :
                exec.executions < MaxExecutions
                   /\ execute_action(t, f, r, DEFAULT_MAX_RETRIES)
          \/ wait_for_approval
          \/ _execute
          \/ \E outcome \in {"success", "transient"} : execute_with_retry(outcome)
       /\ UNCHANGED <<ralph, otherVars>>

SpecExecutor == Init /\ [][ExecutorNext]_vars

\* MCPExecutor(max_retries).execute_action called without a request id, on
\* every performer
RetryNext ==
    /\ \/ \E t \in ActionTypeInputs, f \in BOOLEAN, m \in 0..DEFAULT_MAX_RETRIES :
             exec.executions < MaxExecutions /\ execute_action(t, f, NoRequest, m)
       \/ _execute
       \/ \E outcome \in PerformerOutcomes : execute_with_retry(outcome)
    /\ UNCHANGED <<ralph, otherVars>>

SpecRetry == Init /\ [][RetryNext]_vars

\* the decisions a reviewer records in an approval file of the loop
RalphReviewAreas == { {"**Status:** Approved"}, {"**Status:** Rejected"} }

\* run_loop on one task after the other, and the reviewer
RalphNext ==
    \/ /\ \E n \in DOMAIN needs_approval, a \in RalphReviewAreas :
             needs_approval[n].area = {RalphPendingLine} /\ HumanEdit(n, a)
       /\ UNCHANGED <<exec, ralph, otherVars>>
    \/ /\ \/ \E content \in SUBSET Keywords, readable \in BOOLEAN,
                max_iterations \in {DEFAULT_MAX_ITERATIONS, LargeMaxIterations},
                require_approval \in BOOLEAN, dry_run \in BOOLEAN :
                   /\ ralph.runs < MaxRuns
                   /\ run_loop(content, readable, max_iterations, require_approval, dry_run)
          \/ LoopIteration
          \/ ExecuteStep
          \/ LoopEnd("ok")
       /\ UNCHANGED <<exec, otherVars>>

SpecRalph == Init /\ [][RalphNext]_vars

\* a step of the running loop: run_loop is one sequential call, which goes
\* on until it returns
RalphStep ==
    /\ LoopIteration \/ ExecuteStep \/ LoopEnd("ok")
    /\ UNCHANGED <<exec, otherVars>>

SpecRalphLive == SpecRalph /\ WF_vars(RalphStep)

-----------------------------------------------------------------------------
(* Specifications of the task planner *)

\* the variables of the approval gateway but the clock
gatewayRest == <<needs_approval_exists, needs_approval, listing, approved, rejected,
                 needs_action, skill, fin, ret, nCreates, nStops>>

Range(seq) == { seq[k] : k \in 1..Len(seq) }

\* the files somebody may put into the inbox
DroppedFiles ==
    { File(c, TRUE, u) : c \in Contents, u \in BOOLEAN }
       \cup { File(c, FALSE, TRUE) : c \in Contents }

\* Ctrl+C while the continuous mode sleeps between two scans
KeyboardInterrupt ==
    /\ tracker.pc = "scan"
    /\ ~tracker.once
    /\ tracker.scans > 0
    /\ tracker' = [tracker EXCEPT !.pc = "returned"]
    /\ UNCHANGED <<inbox, plan_files, done, dashboard, tracking_file, actions_log,
                   nDrops, now>>

\* the planner started again and again, in either mode, on an inbox that
\* files are put into; every file operation succeeds
PlannerNext ==
    /\ \/ \E n \in Range(InboxNames), f \in DroppedFiles : nDrops < MaxDrops /\ Drop(n, f)
       \/ \E once \in BOOLEAN : tracker.runs < MaxPlannerRuns /\ task_planner_skill(once)
       \/ tracker.passes < MaxPasses /\ ScanInbox
       \/ NextFile
       \/ SavePlan(TRUE)
       \/ MoveToDone(TRUE)
       \/ UpdateDashboard(TRUE)
       \/ mark_processed(TRUE)
       \/ EndOfPass
       \/ KeyboardInterrupt
       \/ Tick /\ UNCHANGED plannerVars
    /\ UNCHANGED <<gatewayRest, exec, ralph, orch, analysis, laterVars>>

SpecPlanner == Init /\ [][PlannerNext]_vars

\* the planner in once mode, killed at any point and started again
PlannerCrashNext ==
    /\ \/ \E n \in Range(InboxNames), f \in DroppedFiles : nDrops < MaxDrops /\ Drop(n, f)
       \/ tracker.runs < MaxCrashRuns /\ task_planner_skill(TRUE)
       \/ ScanInbox
       \/ NextFile
       \/ SavePlan(TRUE)
       \/ MoveToDone(TRUE)
       \/ UpdateDashboard(TRUE)
       \/ mark_processed(TRUE)
       \/ EndOfPass
       \/ Crash
       \/ Tick /\ UNCHANGED plannerVars
    /\ UNCHANGED <<gatewayRest, exec, ralph, orch, analysis, laterVars>>

SpecPlannerCrash == Init /\ [][PlannerCrashNext]_vars

\* The planner whose file operations may fail one by one, on a tracking
\* file that may be damaged between two runs; or one pass of the
\* orchestrator whose file operations may fail.  The two programs work on
\* different directories, and a behaviour runs one of them.
PlannerFaultsNext ==
    \/ /\ orch.pc = "idle"
       /\ \/ \E n \in Range(InboxNames), c \in Contents :
                nDrops < MaxFaultDrops /\ Drop(n, File(c, TRUE, TRUE))
          \/ \E once \in BOOLEAN : tracker.runs < MaxFaultRuns /\ task_planner_skill(once)
          \/ tracker.passes < MaxFaultPasses /\ ScanInbox
          \/ NextFile
          \/ \E ok \in BOOLEAN : SavePlan(ok)
          \/ \E ok \in BOOLEAN : MoveToDone(ok)
          \/ \E ok \in BOOLEAN : UpdateDashboard(ok)
          \/ \E ok \in BOOLEAN : mark_processed(ok)
          \/ EndOfPass
          \/ KeyboardInterrupt
          \/ \E kind \in CorruptKinds : Damage(kind)
       /\ UNCHANGED <<gatewayRest, exec, ralph, orch, analysis, laterVars>>
    \/ /\ tracker.runs = 0 /\ nDrops = 0
       /\ \/ \E l \in OrchListings : process_needs_action_files(l)
          \/ \E plan_ok \in BOOLEAN, move_ok \in BOOLEAN : OrchFile(plan_ok, move_ok)
          \/ \E dashboard_ok \in BOOLEAN : OrchEnd(dashboard_ok)
       /\ UNCHANGED <<gatewayVars, exec, ralph, plannerVars, analysis, laterVars>>

SpecPlannerFaults == Init /\ [][PlannerFaultsNext]_vars

-----------------------------------------------------------------------------
(* Specification of the classifiers *)

\* every text over the words
ClassifyInit ==
    /\ InitButAnalysis
    /\ analysis \in { ToClassify(text) : text \in SUBSET Words }

\* both classifiers applied to the text, in either order
ClassifyNext ==
    /\ \/ AnalyzeTask
       \/ AnalyzeContent
    /\ UNCHANGED <<gatewayVars, exec, ralph, plannerVars, orch, laterVars>>

SpecClassify == ClassifyInit /\ [][ClassifyNext]_vars

-----------------------------------------------------------------------------
(* Specification of the scheduler's lock *)

\* scheduler processes started, stopped and killed at any time, and status
\* queries between their steps
LockNext ==
    /\ \/ \E i \in Instances, once \in BOOLEAN : Open(i, once)
       \/ \E i \in Instances : Flock(i)
       \/ \E i \in Instances : WriteInfo(i)
       \/ \E i \in Instances : run_iteration(i)
       \/ \E i \in Instances : Unlock(i)
       \/ \E i \in Instances : Close(i)
       \/ \E i \in Instances : Remove(i)
       \/ \E i \in Instances : Kill(i)
       \/ show_status
    /\ UNCHANGED <<gatewayVars, exec, ralph, plannerVars, orch, analysis, audit,
                   watch_tracking, recovery, quarantine, writers>>

SpecLock == Init /\ [][LockNext]_vars

-----------------------------------------------------------------------------
(* Specification of the error recovery *)

\* handle_error called with every error type, severity and retry setting,
\* on retry functions that succeed, fail and raise
RecoveryNext ==
    /\ \/ \E error_type \in ErrorTypes, file_path \in FilePaths,
             retry_enabled \in BOOLEAN, retry_delay \in RetryDelays,
             severity \in Severities, retry_func \in BOOLEAN,
             move \in MoveOutcomes :
                handle_error(error_type, file_path, retry_enabled, retry_delay,
                             severity, retry_func, move)
       \/ \E outcome \in RetryOutcomes : Retry(outcome)
       \/ RecoveryReturn
    /\ UNCHANGED <<gatewayRest, exec, ralph, plannerVars, orch, analysis, lockfs,
                   sched, last_status, audit, watch_tracking, quarantine, writers>>

SpecRecovery == Init /\ [][RecoveryNext]_vars

-----------------------------------------------------------------------------
(* Specification of the audit log *)

\* what the audit log's writers leave alone
auditRest == <<ralph, orch, analysis, lockfs, sched, last_status, recovery, quarantine>>

\* One task on its way: a file is put into the inbox, the watcher may run
\* once before the planner, the planner runs, approval is requested and
\* decided, the action is executed.
\* A writer of the log may be killed inside a write.
AuditNext ==
    \/ /\ \/ \E c \in Contents : nDrops < MaxAuditDrops
                                     /\ Drop(InboxNames[1], File(c, TRUE, TRUE))
                                     /\ UNCHANGED audit
          \/ tracker.runs < MaxAuditRuns /\ LoggedPlannerStart(TRUE)
          \/ ScanInbox /\ UNCHANGED audit
          \/ NextFile /\ UNCHANGED audit
          \/ LoggedSavePlan
          \/ LoggedMoveToDone
          \/ UpdateDashboard(TRUE) /\ UNCHANGED audit
          \/ mark_processed(TRUE) /\ UNCHANGED audit
          \/ EndOfPass /\ UNCHANGED audit
       /\ UNCHANGED <<gatewayRest, exec, watch_tracking, auditRest, writers>>
    \/ /\ tracker.pc = "stopped"
       /\ \A k \in 1..Len(audit) : audit[k].event # "watcher_started"
       /\ vault_watcher_skill
       /\ UNCHANGED <<gatewayRest, exec, auditRest, writers>>
    \/ /\ \/ \E p \in PollIntervals :
                /\ tracker.pc = "returned"
                /\ plan_files # EmptyDir
                /\ nCreates < MaxAuditRequests
                /\ LoggedRequestApproval(<<"1">>, MaxTimeoutMinutes, p)
          \/ LoggedWaitIteration
          \/ LoggedWaitSleep
          \/ SkillFinalizeBegin /\ UNCHANGED audit
          \/ LoggedFinalizeEnd
          \/ \E n \in DOMAIN needs_approval, a \in ReviewAreas :
                HumanDecide(n, a) /\ UNCHANGED audit
       /\ UNCHANGED <<exec, plannerVars, watch_tracking, auditRest, writers>>
    \/ /\ \/ \E t \in ActionTypeInputs, f \in BOOLEAN :
                /\ skill.pc = "done"
                /\ exec.executions < MaxAuditExecutions
                /\ LoggedExecuteAction(t, f, 1)
          \/ Logged_execute
          \/ \E outcome \in {"success", "transient"} : LoggedExecuteWithRetry(outcome)
       /\ UNCHANGED <<plannerVars, watch_tracking, auditRest, writers>>
    \/ /\ KilledInWrite
       /\ UNCHANGED <<gatewayVars, exec, plannerVars, watch_tracking, auditRest, writers>>

SpecAudit == Init /\ [][AuditNext]_vars

-----------------------------------------------------------------------------
(* Specification of the poll of the approval wait *)

\* request_approval(wait=True) with a short and a usual poll interval
PollNext ==
    /\ \/ \E p \in {PollTiny, PollShort} :
             nCreates < MaxPollWaits /\ RequestApproval(<<"1">>, MaxTimeoutMinutes, p)
       \/ WaitIteration
       \/ WaitSleep
       \/ SkillFinalizeBegin
       \/ FinalizeEnd
       \/ \E n \in DOMAIN needs_approval, a \in ReviewAreas : HumanDecide(n, a)
    /\ UNCHANGED <<exec, ralph, otherVars>>

SpecPoll == Init /\ [][PollNext]_vars

-----------------------------------------------------------------------------
(* Specification of the autonomous loop run again *)

\* run_loop started on a task document and started again while the
\* document is in Needs_Action, with moves to Done that may fail
RalphRunsNext ==
    /\ \/ \E content \in SUBSET Keywords,
             max_iterations \in {DEFAULT_MAX_ITERATIONS, LargeMaxIterations},
             require_approval \in BOOLEAN, dry_run \in BOOLEAN :
                /\ ralph.pc = "idle"
                /\ run_loop(content, TRUE, max_iterations, require_approval, dry_run)
       \/ ralph.runs < MaxRalphRuns /\ RunAgain
       \/ LoopIteration
       \/ ExecuteStep
       \/ \E move \in MoveOutcomesOfLoop : LoopEnd(move)
    /\ UNCHANGED <<exec, otherVars>>

SpecRalphRuns == Init /\ [][RalphRunsNext]_vars

-----------------------------------------------------------------------------
(* Specification of the errors directory *)

QuarantineErrorTypes == {"FileNotFoundError", "PermissionError"}

\* files written into the vault and given to handle_error, day after day
QuarantineNext ==
    /\ \/ \E p \in FailedPaths : PutFile(p)
       \/ NextDay
       \/ \E p \in FailedPaths, error_type \in QuarantineErrorTypes,
             retry_enabled \in BOOLEAN, retry_func \in BOOLEAN, move \in MoveOutcomes :
                HandleErrorOfFile(p, error_type, retry_enabled, retry_func, move)
       \/ \E outcome \in RetryOutcomes : Retry(outcome) /\ UNCHANGED quarantine
       \/ RecoveryReturn /\ UNCHANGED quarantine
    /\ UNCHANGED <<gatewayRest, exec, ralph, plannerVars, orch, analysis, lockfs,
                   sched, last_status, audit, watch_tracking, writers>>

SpecQuarantine == Init /\ [][QuarantineNext]_vars

-----------------------------------------------------------------------------
(* Specification of the processes writing the audit log at the same time *)

LogRaceNext ==
    /\ \/ \E w \in Writers, logger \in RewritingLoggers : ReadLog(w, logger)
       \/ \E w \in Writers : RewriteLog(w)
       \/ \E w \in Writers : AppendLog(w)
    /\ UNCHANGED <<gatewayVars, exec, plannerVars, watch_tracking, auditRest>>

SpecLogRace == Init /\ [][LogRaceNext]_vars

-----------------------------------------------------------------------------
(* Properties of the approval gateway *)

\* the decision document of a request
DocumentName(r) == r \o <<".md">>

HasApprovedMarker(doc) ==
    ContentHas(doc, "status: approved") \/ ContentHas(doc, "**status:** approved")
HasRejectedMarker(doc) ==
    ContentHas(doc, "status: rejected") \/ ContentHas(doc, "**status:** rejected")

\* C1: with require_approval and no dry run, every risky step that was
\* executed had an approval request written for it whose decision read
\* APPROVED when the step ran, and no step ran under a decision REJECTED.
C1_RiskyStepNeedsApproval ==
    (ralph.require_approval /\ ~ralph.dry_run)
    => \A k \in 1..Len(ralph.executed) :
          ralph.executed[k].risky => ralph.executed[k].decision = "APPROVED"

\* C2: execute_action called with a request id reaches the performer only
\* after wait_for_approval observed and returned APPROVED; when it returned
\* REJECTED the result is rejected, when the deadline passed with PENDING or
\* no document observed the result is timeout, and in both cases the
\* performer was not called.
C2_PerformerOnlyAfterApproval ==
    exec.request_id # NoRequest
    => /\ (exec.performer_calls > 0 \/ exec.pc \in {"execute", "retrying"})
          => (exec.approval_status = "APPROVED" /\ exec.observed = "APPROVED")
       /\ (exec.pc = "returned" /\ exec.approval_status = "REJECTED")
          => (exec.status = "rejected" /\ exec.performer_calls = 0)
       /\ (exec.pc = "returned" /\ exec.action_type \in ActionType
                /\ exec.observed \notin Terminal)
          => /\ exec.status = "timeout"
             /\ exec.approval_status = "PENDING"
             /\ exec.performer_calls = 0
             /\ now - exec.start_time >= APPROVAL_TIMEOUT
       /\ exec.status \in {"success", "failed"} => exec.approval_status = "APPROVED"

\* an execution with a request id whose performer ran after the approval
C2_Witness ==
    /\ exec.request_id # NoRequest
    /\ exec.pc = "returned"
    /\ exec.approval_status = "APPROVED"
    /\ exec.performer_calls > 0
    /\ exec.status = "success"

\* C3: once check_status has returned APPROVED or REJECTED for a request,
\* the next check_status for its id (and so every later one) returns the
\* same value, whether it finds the document of that request or, after
\* finalize_request has moved it, no document at all.
C3_TerminalStatusIsStable ==
    [][ ( /\ ret.op = "check_status"
          /\ ret.status \in Terminal
          /\ ret'.op = "check_status"
          /\ ret'.request_id = ret.request_id
          /\ (ret'.path = None \/ ret'.doc.details = ret.doc.details) )
        => ret'.status = ret.status ]_vars

\* C4: once request_approval(wait=True) has observed a terminal status for
\* its request it does not poll the request again, and once it has moved the
\* request's document a further finalize_request for the same id writes
\* nothing into any destination directory.
C4_FinalizedExactlyOnce ==
    [][ /\ ( /\ skill.approval_result \in Terminal
             /\ skill'.approval_result = skill.approval_result
             /\ skill'.request_id = skill.request_id )
           => ret' = ret
        /\ ( /\ skill.pc = "done"
             /\ skill.final_path # None
             /\ skill' = skill
             /\ DocumentName(skill.request_id) \notin DOMAIN needs_approval
             /\ fin.pc = "idle"
             /\ fin'.request_id = skill.request_id )
           => /\ fin'.pc = "idle"
              /\ approved' = approved
              /\ rejected' = rejected
              /\ needs_action' = needs_action ]_vars

\* C5: wait_for_decision polls only while the elapsed time is below the
\* timeout T, and when it returns TIMEOUT the elapsed time t satisfies
\* T <= t <= T + P and the last poll was made before T.
C5_TimeoutWithinOnePoll ==
    /\ skill.pc = "waiting" => skill.elapsed < skill.timeout_seconds
    /\ (skill.pc = "finalize" /\ skill.approval_result = "TIMEOUT")
       => /\ skill.timeout_seconds <= skill.elapsed
          /\ skill.elapsed <= skill.timeout_seconds + skill.poll_interval
          /\ skill.last_poll < skill.timeout_seconds

\* a wait_for_decision that polled three times and then returned TIMEOUT
\* later than T
C5_Witness ==
    /\ skill.pc = "finalize"
    /\ skill.approval_result = "TIMEOUT"
    /\ 0 < skill.timeout_seconds
    /\ skill.timeout_seconds < skill.elapsed
    /\ skill.last_poll = 2 * skill.poll_interval

\* status lines that are not of the form the template asks for
MalformedLines == { "status:APPROVED", "status: APPROVED / REJECTED" }

Conflicting(doc) == HasApprovedMarker(doc) /\ HasRejectedMarker(doc)
Malformed(doc) == doc.area \cap MalformedLines # {}

\* C6: a status query that read a document with conflicting markers or a
\* malformed status line answered PENDING.
C6_ConflictingIsPending ==
    ( /\ ret.op \in {"check_status", "check_approval_status"}
      /\ ret.path # None
      /\ ret.doc.readable
      /\ (Conflicting(ret.doc) \/ Malformed(ret.doc)) )
    => ret.status = "PENDING"

Missing(r) == ~needs_approval_exists \/ DocumentName(r) \notin DOMAIN needs_approval
Unreadable(r) == ~Missing(r) /\ ~needs_approval[DocumentName(r)].readable
Markerless(r) ==
    /\ ~Missing(r)
    /\ ~HasApprovedMarker(needs_approval[DocumentName(r)])
    /\ ~HasRejectedMarker(needs_approval[DocumentName(r)])

\* C7: a status query for a request whose document is missing, unreadable or
\* without a status marker never answers APPROVED or REJECTED: check_status
\* answers PENDING, check_approval_status answers None when the document is
\* missing and PENDING when it has no marker.
C7_NoDecisionWithoutMarker ==
    [][ \A r \in RequestIds :
          ( /\ ret' # ret
            /\ ret'.request_id = r
            /\ (Missing(r) \/ Unreadable(r) \/ Markerless(r)) )
          => /\ ret'.status \notin Terminal
             /\ ret'.op = "check_status" => ret'.status = "PENDING"
             /\ (ret'.op = "check_approval_status" /\ Missing(r)) => ret'.status = "None"
             /\ (ret'.op = "check_approval_status" /\ Markerless(r))
                   => ret'.status = "PENDING" ]_vars

KeptIntact(before, after) ==
    \A n \in DOMAIN before : n \in DOMAIN after /\ after[n] = before[n]

\* C9: finalize_request writes the document, with a footer of the result and
\* the time, into Approved for APPROVED, Rejected for REJECTED and
\* Needs_Action for TIMEOUT, keeps every document the destination
\* directories already held, and removes it from Needs_Approval.
C9_FinalizeMovesAndKeeps ==
    [][ /\ (fin.pc = "idle" /\ fin'.pc = "written")
           => LET source == needs_approval[fin'.source_path]
                  dest == CASE fin'.result = "APPROVED" -> approved'
                            [] fin'.result = "REJECTED" -> rejected'
                            [] fin'.result = "TIMEOUT" -> needs_action'
              IN /\ fin'.dest_path \in DOMAIN dest
                 /\ dest[fin'.dest_path].details = source.details
                 /\ dest[fin'.dest_path].area = source.area
                 /\ dest[fin'.dest_path].notes =
                        Append(source.notes, [status |-> fin'.result, at |-> now])
                 /\ KeptIntact(approved, approved')
                 /\ KeptIntact(rejected, rejected')
                 /\ KeptIntact(needs_action, needs_action')
        /\ (fin.pc = "written" /\ fin'.pc = "idle" /\ nStops' = nStops)
           => fin.source_path \notin DOMAIN needs_approval' ]_vars

\* the requests whose documents a directory holds
DetailsIn(dir) == { dir[n].details : n \in DOMAIN dir }

\* C10: in every state, also between the steps of finalize_request and after
\* a stop midway, no request's document is in two of the directories
\* Needs_Approval, Approved, Rejected and Needs_Action, and a document
\* being finalized is in one of them.
C10_ExactlyOneDirectory ==
    /\ DetailsIn(needs_approval)
          \cap (DetailsIn(approved) \cup DetailsIn(rejected) \cup DetailsIn(needs_action)) = {}
    /\ DetailsIn(approved) \cap (DetailsIn(rejected) \cup DetailsIn(needs_action)) = {}
    /\ DetailsIn(rejected) \cap DetailsIn(needs_action) = {}
    /\ fin.pc = "written"
          => \/ fin.source_path \in DOMAIN needs_approval
             \/ fin.dest_path \in DOMAIN Folder(DestFolder(fin.result))

\* the reviewer has written REJECTED into the document of the request that
\* request_approval(wait=True) is waiting for
RejectedWhileWaiting ==
    /\ skill.pc \in {"waiting", "sleeping"}
    /\ DocumentName(skill.request_id) \in DOMAIN needs_approval
    /\ needs_approval[DocumentName(skill.request_id)].readable
    /\ needs_approval[DocumentName(skill.request_id)].area = {"status: REJECTED"}

\* C11: when the reviewer has written REJECTED into the document while
\* wait_for_decision is waiting, the wait ends at its next poll, at most one
\* poll interval later, with REJECTED, and finalize_request then writes the
\* document into Rejected.
C11_RejectionIsReturned ==
    [][ /\ (RejectedWhileWaiting /\ skill'.pc = "finalize")
           => /\ skill'.approval_result = "REJECTED"
              /\ now' - now <= skill.poll_interval
        /\ ( /\ skill.pc = "finalize"
             /\ skill.approval_result = "REJECTED"
             /\ fin.pc = "idle"
             /\ fin'.pc = "written"
             /\ fin'.caller = "skill" )
           => fin'.dest_path \in DOMAIN rejected' ]_vars

\* C12: execute_with_retry calls the performer at most max_retries times;
\* a call that succeeds is the last one and attempts is then the number of
\* calls made; when every call of the range failed, by an error result or
\* by an exception, the result is a failure after max_retries calls that
\* carries the error of the last call.
C12_RetryBound ==
    /\ exec.performer_calls <= exec.max_retries
    /\ exec.performer_calls = Len(exec.outcomes)
    /\ \A k \in 1..(Len(exec.outcomes) - 1) : exec.outcomes[k] \in Failures
    /\ exec.status = "success"
          => /\ exec.outcomes[Len(exec.outcomes)] = "success"
             /\ exec.attempts = exec.performer_calls
    /\ (exec.pc = "returned" /\ exec.status = "failed")
          => /\ exec.performer_calls = exec.max_retries
             /\ exec.attempts = exec.max_retries
             /\ \A k \in 1..Len(exec.outcomes) : exec.outcomes[k] \in Failures
             /\ exec.max_retries > 0 => exec.error = exec.outcomes[Len(exec.outcomes)]
    /\ (exec.pc = "retrying" /\ exec.outcomes # <<>>)
          => exec.outcomes[Len(exec.outcomes)] \in Failures

\* an error result, an exception and then a success, and the failure of
\* all three calls
C12_Witness ==
    /\ exec.pc = "returned"
    /\ exec.max_retries = DEFAULT_MAX_RETRIES
    /\ exec.outcomes = <<"transient", "exception", "success">>
    /\ exec.attempts = 3

\* the failures after which no retry is made
NonRetryable == {"permission", "validation", "authentication"}

\* C13: no performer call follows a permission, validation or
\* authentication failure: after such a failure the performer has been
\* called once and is not called again.
C13_NoRetryOfPermanentFailure ==
    \A k \in 1..Len(exec.outcomes) :
        exec.outcomes[k] \in NonRetryable => (k = 1 /\ Len(exec.outcomes) = 1)

-----------------------------------------------------------------------------
(* Properties of the task planner *)

\* the plans built for a content
PlansOf(c) == { p \in DOMAIN plan_files : plan_files[p].summary[2] = c }

\* the for loop is at a file
AtFile == tracker.pc \notin {"stopped", "returned", "failed", "scan"}
             /\ tracker.i \in 1..Len(tracker.files)

\* C14: a content put into the inbox twice gets one plan and one dashboard
\* entry: a plan, a dashboard entry or a move to Done is made only for a
\* file whose hash is not recorded, no content has two plans, and the file
\* whose hash is recorded only adds one to the skipped count.
C14_SecondIngestionIsSkipped ==
    /\ [](\A c \in Contents : Cardinality(PlansOf(c)) <= 1)
    /\ [](tracker.pc # "mark"
             => Len(dashboard) = Cardinality(tracking_file.processed_files))
    /\ [][ /\ (plan_files' # plan_files \/ dashboard' # dashboard \/ done' # done)
              => /\ AtFile
                 /\ Current.hash \notin tracker._processed_files
                 /\ Current.hash \notin tracking_file.processed_files
           /\ ( /\ AtFile /\ tracker.pc = "file"
                /\ Current.hash \in tracker._processed_files
                /\ tracker' # tracker )
              => /\ tracker'.files_skipped = tracker.files_skipped + 1
                 /\ tracker'.files_processed = tracker.files_processed
                 /\ UNCHANGED <<inbox, plan_files, done, dashboard, tracking_file>> ]_vars

\* the content was planned in one run and skipped in the next
C14_Witness ==
    /\ tracker.runs = 2
    /\ tracker.files_skipped = 1
    /\ tracker.files_processed = 0
    /\ Cardinality(DOMAIN plan_files) = 1
    /\ Len(dashboard) = 1
    /\ Cardinality(DOMAIN done) = 1

\* C15: with the process killed at any point of _process_file and started
\* again, no content ever has two plans, and as long as the plan of a file
\* is not written its hash is not in the tracking file.
C15_NeverTwoPlans ==
    /\ \A c \in Contents : Cardinality(PlansOf(c)) <= 1
    /\ (AtFile /\ tracker.pc = "save_plan")
          => Current.hash \notin tracking_file.processed_files

\* C16: a run that starts on a damaged tracking file starts with an empty
\* processed set, does not fail, and writes the damage to the log.
C16_CorruptStoreFailsOpen ==
    [][ (tracker'.runs = tracker.runs + 1 /\ tracking_file.kind \in CorruptKinds)
           => /\ tracker'.pc = "scan"
              /\ tracker'._processed_files = {}
              /\ actions_log' # actions_log ]_vars

\* the pass of the planner is over
PassOver == tracker.pc = "returned" \/ (tracker.pc = "scan" /\ tracker.scans > 0)

\* C18: in a pass whose file operations may fail, every file of the scan
\* gets its turn: each one before the current one was skipped because its
\* hash was recorded, or processed, or failed by its own plan; when the
\* pass is over every file of the scan had its turn.  The same for the
\* pass of the orchestrator.
C18_FailureDoesNotStopThePass ==
    /\ AtFile => Len(tracker.results) = tracker.i - 1
    /\ PassOver => Len(tracker.results) = Len(tracker.files)
    /\ \A k \in 1..Len(tracker.results) :
          /\ tracker.results[k] = "error"
                => <<"plan_save_error", tracker.files[k].filename>> \in actions_log
          /\ tracker.results[k] = "skipped"
                => tracker.files[k].hash \in tracker._processed_files
          /\ tracker.results[k] = "success"
                => tracker.files[k].hash \in tracker._processed_files
    /\ orch.pc = "file" => Len(orch.results) = orch.i - 1
    /\ orch.pc = "returned" => Len(orch.results) = Len(orch.markdown_files)

\* the plan of the first file could not be saved and the second file was
\* processed
C18_Witness ==
    /\ PassOver
    /\ tracker.results = <<"error", "success">>
    /\ Cardinality(DOMAIN plan_files) = 1

\* C17: a task document that cannot be read is skipped: no plan is built
\* for it and it is not moved to Done.
C17_UnreadableIsSkipped ==
    (ralph.pc # "idle" /\ ~ralph.readable)
       => /\ ralph.plan = "none"
          /\ ralph.task # "Done"
          /\ ralph.executed = <<>>

-----------------------------------------------------------------------------
(* Properties of the classifiers *)

\* the fixed priority order of the task types
PriorityOrder ==
    <<"financial", "destructive", "social_media", "email", "scheduling", "document_review">>

\* the first type of the order among the matching ones, else general
HighestPriority(matching) ==
    IF \E k \in 1..Len(PriorityOrder) : PriorityOrder[k] \in matching
    THEN PriorityOrder[CHOOSE k \in 1..Len(PriorityOrder) :
                          /\ PriorityOrder[k] \in matching
                          /\ \A j \in 1..(k - 1) : PriorityOrder[j] \notin matching]
    ELSE "general"

\* the task types whose rule of _analyze_task matches the text
RalphMatching(text) ==
    { _analyze_task({g}, TRUE) : g \in RalphContent(text) }

\* the task types whose rule of _analyze_content matches the text
PlannerMatching(text) ==
    { t \in {"email", "social_media", "document_review", "scheduling"} :
        AnyIn(PlannerKeywords(t), text) }

\* C19: each classifier returns the task type of the matching rule that is
\* first in the order financial > destructive > social-media > email >
\* scheduling > document-review, and general when no rule matches.
C19_HighestPriorityRule ==
    /\ analysis.ralph # NotClassified
          => analysis.ralph.task_type = HighestPriority(RalphMatching(analysis.text))
    /\ analysis.planner # NotClassified
          => analysis.planner.task_type = HighestPriority(PlannerMatching(analysis.text))

\* the position of a risk level in RiskLevels
Tier(level) == CHOOSE k \in 1..Len(RiskLevels) : RiskLevels[k] = level

\* C20: a text with "payment" and "urgent" is financial, and its risk level
\* is at least one tier above the risk level of the text without "urgent".
C20_UrgentEscalates ==
    ({"payment", "urgent"} \subseteq content_lower(analysis.text)
        /\ analysis.ralph # NotClassified)
       => /\ analysis.ralph.task_type = "financial"
          /\ Tier(analysis.ralph.risk_level)
                >= Tier(risk_level(RalphContent(analysis.text \ {"URGENT"}), TRUE)) + 1
          /\ analysis.planner # NotClassified => analysis.planner.task_type = "financial"

-----------------------------------------------------------------------------
(* Properties of the autonomous loop *)

\* the steps whose effect is external and irreversible
ExternalSteps == {"Send email", "Publish post", "Execute transaction", "Delete"}

\* the task types with such a step
ExternalTypes == {"email", "social_media", "financial", "destructive"}

\* C21: in the plan of a task the risky steps are exactly the send, post,
\* transfer and delete steps, and the plan of an email, social-media,
\* financial or destructive task has a risky step.
C21_ExternalStepsAreRisky ==
    ralph.pc # "idle"
    => /\ \A i \in 1..Len(ralph.steps) :
             ralph.steps[i].risky <=> ralph.steps[i].description \in ExternalSteps
       /\ ralph.task_type \in ExternalTypes
             => \E i \in 1..Len(ralph.steps) : ralph.steps[i].risky

\* a run on a general task with the default ceiling, not a dry run
GeneralRun ==
    /\ ralph.pc # "idle"
    /\ ralph.task_type = "general"
    /\ ralph.max_iterations = DEFAULT_MAX_ITERATIONS
    /\ ~ralph.dry_run

\* C22: the plan of a general task has no risky step; its run with the
\* default ceiling writes no approval request, executes every step, and the
\* task reaches Done.
C22_GeneralTaskReachesDone ==
    /\ [](GeneralRun
            => /\ \A i \in 1..Len(ralph.steps) : ~ralph.steps[i].risky
               /\ ralph.approval_path = None
               /\ \A k \in 1..Len(ralph.executed) : ralph.executed[k].decision = "NONE"
               /\ ralph.pc = "returned"
                     => (ralph.success /\ Len(ralph.executed) = Len(ralph.steps)))
    /\ (GeneralRun ~> (ralph.pc = "returned" /\ ralph.task = "Done"))

\* the five steps of a general task were executed and the task is in Done
C22_Witness ==
    /\ GeneralRun
    /\ ralph.require_approval
    /\ Len(ralph.executed) = 5
    /\ ralph.task = "Done"

\* C23: a run executes at most max_iterations steps; a plan with more
\* steps than the ceiling is stopped after max_iterations steps and the
\* run is a failure, and a plan within the ceiling is executed whole.
C23_IterationCeiling ==
    /\ Len(ralph.executed) <= ralph.max_iterations
    /\ ralph.current_iteration <= ralph.max_iterations + 1
    /\ ralph.pc = "returned"
          => IF Len(ralph.steps) > ralph.max_iterations
             THEN /\ ~ralph.success
                  /\ Len(ralph.executed) = ralph.max_iterations
             ELSE Len(ralph.executed) = Len(ralph.steps)

\* the six-step plan of an email task stopped at the default ceiling
C23_Witness ==
    /\ ralph.pc = "returned"
    /\ ralph.task_type = "email"
    /\ ralph.max_iterations = DEFAULT_MAX_ITERATIONS
    /\ Len(ralph.executed) = DEFAULT_MAX_ITERATIONS
    /\ ~ralph.success

\* C24: a run that failed has its task document in the quarantine
\* directory: not in Done and not left in Needs_Action.
C24_FailedTaskIsQuarantined ==
    (ralph.pc = "returned" /\ ~ralph.success /\ ~ralph.dry_run)
       => ralph.task \notin {"Done", "Needs_Action"}

-----------------------------------------------------------------------------
(* Properties of the scheduler's lock *)

\* C25: at no time have two scheduler processes acquired the lock, whatever
\* the interleaving of the steps of acquire and release.
C25_MutualExclusion ==
    \A i, j \in Instances :
        (sched[i].pc = "running" /\ sched[j].pc = "running") => i = j

\* C26: a scheduler that found the lock held has exited with code 1 without
\* side effects: the lock file still records the holder as its owner, the
\* one that failed has run no iteration, and the holder still has the lock
\* on the file the path names.
C26_FailedAcquireChangesNothing ==
    \A i, j \in Instances :
        (/\ sched[j].pc = "idle" /\ sched[j].exit_code = 1
         /\ sched[i].pc = "running" /\ lockfs.path = sched[i].lock_fd)
        => /\ check_existing # None
           /\ check_existing.pid = i
           /\ sched[j].iterations = 0
           /\ lockfs.flock[lockfs.path] = i

\* C27: acquire fails only against a lock that a live process holds, and a
\* status query reports a running scheduler only when a live process holds
\* the lock.
C27_StaleLockIsNotLive ==
    [][/\ \A i \in Instances :
             (sched[i].pc = "opened" /\ sched'[i].pc = "idle"
                /\ sched'[i].exit_code = 1)
             => lockfs.flock[sched[i].lock_fd] \in Instances \ {i}
       /\ (last_status' # last_status /\ last_status'.is_running)
             => \E n \in Inodes : lockfs.flock[n] # NoOne]_vars

-----------------------------------------------------------------------------
(* Properties of the error recovery *)

\* the errors that are not retried
NotRetried ==
    \/ recovery.error_type \in {"PermissionError", "ValidationError",
                                "AuthenticationError", "ConfigurationError"}
    \/ recovery.severity = "critical"
    \/ ~recovery.retry_enabled

-----------------------------------------------------------------------------
(* Properties of the audit log *)

\* C28: the audit log is append-only: whoever writes, every entry that was
\* in the log before the write is still there afterwards, at its place and
\* unchanged, also when the log holds a line a killed writer left.
C28_AppendOnly ==
    [][/\ Len(audit') >= Len(audit)
       /\ \A k \in 1..Len(audit) : audit[k].json => audit'[k] = audit[k]]_vars

\* the positions of the log that hold an entry of one of the events
At(events) == { k \in 1..Len(audit) : audit[k].json /\ audit[k].event \in events }

\* C29: when the log has an approval-decided entry, it has before it, in
\* this order, an ingestion, a classification, a plan-created and an
\* approval-requested entry.
C29_EntriesInOrder ==
    \A m \in At({"approval_decision"}) :
        \E i \in At({"file_detected"}), j \in At({"content_analyzed"}),
           k \in At({"plan_created"}), l \in At({"approval_request_created"}) :
            i < j /\ j < k /\ k < l /\ l < m

-----------------------------------------------------------------------------
(* Properties of the poll of the approval wait *)

\* C31: the wait does not busy-spin: whatever poll_interval it was given,
\* two consecutive polls of the decision document are at least the minimum
\* poll interval of 5 seconds apart.
C31_MinimumPollInterval ==
    [][(skill.pc = "waiting" /\ skill'.pc # "waiting" /\ skill.last_poll >= 0)
          => skill'.last_poll - skill.last_poll >= 5]_vars

-----------------------------------------------------------------------------
(* Properties of the autonomous loop run again *)

\* C32: a dry run changes nothing: from its start to its return the task
\* document is in Needs_Action, there is no plan file, no approval request
\* and no dashboard entry, and no line is added to the log file.
C32_DryRunChangesNothing ==
    [][(ralph.dry_run /\ ralph.pc # "returned")
          => /\ ralph'.task = "Needs_Action"
             /\ ralph'.plan = "none"
             /\ needs_approval' = needs_approval
             /\ ralph'.dashboard = ralph.dashboard
             /\ ralph'.log = ralph.log]_vars

\* C33: with the default settings the risky step of a task document is
\* executed at most once, however often run_loop is called.
C33_RiskyStepAtMostOnce ==
    (/\ ralph.max_iterations = DEFAULT_MAX_ITERATIONS
     /\ ralph.require_approval /\ ~ralph.dry_run)
    => ralph.risky_executions <= 1

\* C36: run_loop returns success True only with the task document and its
\* plan in Done.
C36_SuccessMeansDone ==
    (ralph.pc = "returned" /\ ralph.success /\ ~ralph.dry_run)
       => (ralph.task = "Done" /\ ralph.plan = "Done")

\* C34: create_request never discards a recorded decision: a document of
\* Needs_Approval that reads APPROVED or REJECTED before a create_request
\* step is still there and reads the same after it.
C34_CreateKeepsDecision ==
    [][nCreates' = nCreates + 1 =>
         \A n \in DOMAIN needs_approval :
            _parse_status(needs_approval[n]) \in Terminal =>
               /\ n \in DOMAIN needs_approval'
               /\ _parse_status(needs_approval'[n]) = _parse_status(needs_approval[n])]_vars

\* C35: requests are isolated: the document check_status read and the
\* document finalize_request moves are the document of the request id the
\* call was given, also when one id is a substring of the other.
C35_RequestsIsolated ==
    /\ (ret.op = "check_status" /\ ret.path # None)
          => ret.path = RequestFileName(ret.request_id)
    /\ fin.pc # "idle" => fin.source_path = RequestFileName(fin.request_id)

\* C38: whenever the task planner marks a hash processed, the document of
\* that hash has left the inbox and is in Done; a document whose move
\* failed is not marked processed.
C38_ProcessedMeansMoved ==
    [][(tracker.pc = "mark" /\ Current.hash \in tracker'._processed_files) =>
          /\ Current.filename \notin DOMAIN inbox'
          /\ tracker.done_path # None
          /\ tracker.done_path \in DOMAIN done']_vars

-----------------------------------------------------------------------------
(* Properties of the errors directory *)

\* C37: the quarantine preserves every artifact: whatever handle_error is
\* called with, every file of the Errors directory and every metadata file
\* beside it is still there after the call, with the content it had.
C37_QuarantineKeepsArtifacts ==
    [][/\ \A k \in DOMAIN quarantine.errors :
             /\ k \in DOMAIN quarantine'.errors
             /\ quarantine'.errors[k] = quarantine.errors[k]
       /\ \A k \in DOMAIN quarantine.meta :
             /\ k \in DOMAIN quarantine'.meta
             /\ quarantine'.meta[k] = quarantine.meta[k]]_vars

\* C39: no entry is lost when processes write the audit log at the same
\* time: when every process is outside a write, every entry a process has
\* logged is a line of the log.
C39_NoLostEntry ==
    (\A w \in Writers : writers[w].pc = "idle") =>
       \A w \in Writers : \A k \in 1..writers[w].written :
          \E i \in 1..Len(audit) : audit[i] = EntryOf(w, k)

====
